---- MODULE Spec2Model ----
(***************************************************************************)
(* Model of src/Interpreters/SyntaxAnalyzer.cpp: the syntax-analysis and   *)
(* query-rewrite stage.  One behaviour is one call of                      *)
(* SyntaxAnalyzer::analyzeSelect or SyntaxAnalyzer::analyze on one query:  *)
(* the result record is constructed, then the passes run in the order of   *)
(* the function body, one action per pass.  A pass that throws ends the    *)
(* behaviour in pc = "failed" with the error code in err.                  *)
(***************************************************************************)
EXTENDS Integers, Sequences, FiniteSets, TLC

VARIABLES
    pc,      \* the statement of analyzeSelect / analyze that runs next
    err,     \* ErrorCodes name of the exception thrown, "" when none
    log,     \* visitors and passes that have run on the query, in order
    query,   \* the AST: the SELECT queries of the tree, query[1] the analysed one
    opts,    \* the call's arguments, the settings and the collaborators' answers
    result,  \* the SyntaxAnalyzerResult under construction
    locals   \* the local sets of collectUsedColumns as it left them

vars == <<pc, err, log, query, opts, result, locals>>

-----------------------------------------------------------------------------
(* Generic helpers on sequences and maps.                                  *)

Range(s) == {s[i] : i \in 1..Len(s)}

RECURSIVE SelectSeqIdx(_, _, _)
\* the subsequence of s at the positions i for which Keep[i] holds
SelectSeqIdx(s, Keep, i) ==
    IF i > Len(s) THEN <<>>
    ELSE (IF Keep[i] THEN <<s[i]>> ELSE <<>>) \o SelectSeqIdx(s, Keep, i + 1)

RECURSIVE Flatten(_)
Flatten(ss) == IF ss = <<>> THEN <<>> ELSE Head(ss) \o Flatten(Tail(ss))

\* m[k] = v of a std::map / std::unordered_map
MapPut(m, k, v) == [x \in (DOMAIN m) \cup {k} |-> IF x = k THEN v ELSE m[x]]

EmptyMap == [x \in {} |-> ""]

\* all sequences over S of length at most n
SeqUpTo(S, n) == UNION {[1..k -> S] : k \in 0..n}

\* all orders in which the elements of the finite set S can be listed
Permutations_(S) ==
    {p \in [1..Cardinality(S) -> S] : \A i, j \in 1..Cardinality(S) : p[i] = p[j] => i = j}

-----------------------------------------------------------------------------
(* AST expression nodes.  column_name is what getColumnName() returns for  *)
(* the node; children are the node's children (a function's argument list  *)
(* is flattened into the function node).                                   *)

Node(type, name, column_name, alias, children) ==
    [type |-> type, name |-> name, column_name |-> column_name,
     alias |-> alias, children |-> children]

Identifier(name) == Node("Identifier", name, name, "", <<>>)
Literal(text) == Node("Literal", text, text, "", <<>>)
\* a string literal: its column name is the quoted text
StringLiteral(text) == Node("Literal", text, "'" \o text \o "'", "", <<>>)
Function(name, column_name, args) == Node("Function", name, column_name, "", args)
\* an ASTOrderByElement: its child is the expression; COLLATE locale ("" without)
\* and direction
OrderByElement(expression, collation, direction) ==
    [type |-> "OrderByElement", name |-> "", column_name |-> "", alias |-> "",
     children |-> <<expression>>, collation |-> collation, direction |-> direction]
WithAlias(n, alias) == [n EXCEPT !.alias = alias]

\* ASTWithAlias::getAliasOrColumnName / IAST::getColumnName
getColumnName(n) == n.column_name
getAliasOrColumnName(n) == IF n.alias # "" THEN n.alias ELSE n.column_name
\* ASTWithAlias::setAlias
setAlias(n, alias) == [n EXCEPT !.alias = alias]

-----------------------------------------------------------------------------
(* SELECT-list passes.                                                     *)

RECURSIVE hasArrayJoin(_)
\* lines 101-112: an arrayJoin call in the expression, subqueries excluded
hasArrayJoin(ast) ==
    \/ ast.type = "Function" /\ ast.name = "arrayJoin"
    \/ \E i \in 1..Len(ast.children) :
          /\ ast.children[i].type # "SelectQuery"
          /\ hasArrayJoin(ast.children[i])

\* name + "_" + toString(i)
Suffixed(name, i) == name \o "_" \o ToString(i)

\* the loop of lines 132-133 left out: the first suffix is taken as it is
FirstSuffixUnchecked(name, all_column_names, i) == i

RECURSIVE FirstUnusedSuffix(_, _, _)
\* lines 131-133: the while loop that looks for a free name_i
FirstUnusedSuffix(name, all_column_names, i) ==
    IF Suffixed(name, i) \in all_column_names
    THEN FirstUnusedSuffix(name, all_column_names, i + 1)
    ELSE i

RECURSIVE RenameLoop(_, _, _, _)
\* lines 125-142: the second loop over the elements, from position k on
RenameLoop(elements, k, all_column_names, assigned_column_names) ==
    IF k > Len(elements) THEN elements
    ELSE LET name == getAliasOrColumnName(elements[k]) IN
         IF name \notin assigned_column_names
         THEN RenameLoop(elements, k + 1, all_column_names,
                         assigned_column_names \cup {name})
         ELSE LET new_name == Suffixed(name, FirstUnusedSuffix(name, all_column_names, 1)) IN
              RenameLoop([elements EXCEPT ![k] = setAlias(elements[k], new_name)],
                         k + 1,
                         all_column_names \cup {new_name},
                         assigned_column_names \cup {new_name})

\* lines 115-143
renameDuplicatedColumns(elements) ==
    RenameLoop(elements, 1, {getAliasOrColumnName(e) : e \in Range(elements)}, {})

\* every listed name counted once, whatever remove_dups says
RequiredColumnsCountedOnce(elements, required_result_columns, remove_dups) ==
    [name \in IF required_result_columns # <<>>
               THEN Range(required_result_columns)
               ELSE {getAliasOrColumnName(e) : e \in Range(elements)} |-> 1]

\* lines 152-172: required_columns_with_duplicate_count
RequiredColumnsWithDuplicateCount(elements, required_result_columns, remove_dups) ==
    IF required_result_columns # <<>>
    THEN [name \in Range(required_result_columns) |->
            IF remove_dups THEN 1
            ELSE Cardinality({i \in 1..Len(required_result_columns) :
                                 required_result_columns[i] = name})]
    ELSE [name \in {getAliasOrColumnName(e) : e \in Range(elements)} |-> 1]

RECURSIVE RemoveUnneededLoop(_, _, _, _)
\* lines 177-191: the loop that fills new_elements, from position k on
RemoveUnneededLoop(elements, k, counts, distinct) ==
    IF k > Len(elements) THEN <<>>
    ELSE LET elem == elements[k]
             name == getAliasOrColumnName(elem)
         IN  IF name \in DOMAIN counts /\ counts[name] > 0
             THEN <<elem>> \o RemoveUnneededLoop(elements, k + 1,
                                    [counts EXCEPT ![name] = @ - 1], distinct)
             ELSE IF distinct \/ hasArrayJoin(elem)
             THEN <<elem>> \o RemoveUnneededLoop(elements, k + 1, counts, distinct)
             ELSE RemoveUnneededLoop(elements, k + 1, counts, distinct)

\* lines 148-194: the new SELECT list of select_query
removeUnneededColumnsFromSelectClause(select_query, required_result_columns, remove_dups) ==
    IF required_result_columns = <<>> /\ ~remove_dups
    THEN select_query.select
    ELSE RemoveUnneededLoop(select_query.select, 1,
             RequiredColumnsWithDuplicateCount(select_query.select,
                                               required_result_columns, remove_dups),
             select_query.distinct)

-----------------------------------------------------------------------------
(* ASTSelectQuery.  parent is the index in query of the enclosing SELECT   *)
(* (0 for the analysed query) and slot the place of the subquery in the     *)
(* parent: "from" and "join" for the subqueries of its tables(), "where"   *)
(* for a subquery inside its WHERE expression.  A clause is a record with  *)
(* a present flag (the clause pointer is not null) and its children.       *)

NoClause == [present |-> FALSE, list |-> <<>>]
Clause(list) == [present |-> TRUE, list |-> list]

NoJoin ==
    [present |-> FALSE, kind |-> "Inner", strictness |-> "Unspecified",
     using |-> NoClause, on_expression |-> FALSE,
     table_expression |-> [kind |-> "none", alias |-> "", short |-> TRUE, name |-> ""]]

\* `JOIN name USING/ON ...` with the joined table given by its name
TableJoin(kind, strictness) ==
    [present |-> TRUE, kind |-> kind, strictness |-> strictness,
     using |-> NoClause, on_expression |-> TRUE,
     table_expression |-> [kind |-> "table", alias |-> "", short |-> TRUE, name |-> "b"]]

\* SELECT x FROM t
BaseSelect ==
    [parent |-> 0, slot |-> "root",
     select |-> <<Identifier("x")>>, distinct |-> FALSE,
     table |-> [kind |-> "table", name |-> "t"],
     prewhere |-> <<>>, where |-> <<>>,
     group_by |-> NoClause, having |-> <<>>,
     order_by |-> NoClause,
     limit_by |-> NoClause, limit_by_offset |-> FALSE, limit_by_length |-> FALSE,
     limit_length |-> FALSE, limit_offset |-> FALSE,
     set |-> FALSE,
     array_join |-> NoClause,
     join |-> NoJoin]

\* the indices of the subqueries of query node p that hang under slot
ChildrenIn(q, p, slot) == {c \in 1..Len(q) : q[c].parent = p /\ q[c].slot = slot}

\* the SELECT queries found first on the paths below select_query->tables()
TablesChildren(q, p) == ChildrenIn(q, p, "from") \cup ChildrenIn(q, p, "join")

-----------------------------------------------------------------------------
(* GROUP BY simplification.                                                *)

\* lines 207-224
injective_function_names ==
    {"negate", "bitNot", "reverse", "reverseUTF8", "toString", "toFixedString",
     "IPv4NumToString", "IPv4StringToNum", "hex", "unhex", "bitmaskToList",
     "bitmaskToArray", "tuple", "regionToName", "concatAssumeInjective"}

\* lines 226-241
possibly_injective_function_names ==
    {"dictGetString", "dictGetUInt8", "dictGetUInt16", "dictGetUInt32", "dictGetUInt64",
     "dictGetInt8", "dictGetInt16", "dictGetInt32", "dictGetInt64", "dictGetFloat32",
     "dictGetFloat64", "dictGetDate", "dictGetDateTime"}

\* Field::safeGet<String> succeeds on the value of the literal
IsStringLiteral(ast) == ast.column_name = "'" \o ast.name \o "'"

\* the dictionary loader knows the dictionary
hasDictionary(dict_name) == dict_name \in opts.dictionaries

\* the dictionary loader's answer: getDictionary(dict_name)->isInjective(attr_name)
isInjective(dict_name, attr_name) == <<dict_name, attr_name>> \in opts.injective_attributes

\* the counter of line 250 as it starts, never advanced
FirstCandidate(source_columns, n) == n

RECURSIVE UnusedColumn(_, _)
\* lines 250-257: the smallest number from n on whose text is no source column
UnusedColumn(source_columns, n) ==
    IF ToString(n) \in source_columns THEN UnusedColumn(source_columns, n + 1) ELSE n

\* lines 247-261: the GROUP BY clause the function installs
appendUnusedGroupByColumn(source_columns) ==
    Clause(<<Literal(ToString(UnusedColumn(source_columns, 0)))>>)

\* lines 274-277
is_literal(ast) == ast.type = "Literal"

\* lines 282-288: swap with the last expression, then pop_back
remove_expr_at_index(group_exprs, idx) ==
    LET n == Len(group_exprs)
        swapped == IF idx < n
                   THEN [group_exprs EXCEPT ![idx] = group_exprs[n], ![n] = group_exprs[idx]]
                   ELSE group_exprs
    IN  SubSeq(swapped, 1, n - 1)

\* the fixed injective list alone: a dictGet* call is never unwrapped
InFixedInjectiveList(function) ==
    [err |-> "", eliminated |-> function.name \in injective_function_names]

\* lines 305-307: the exception of reading the literal argument: as<ASTLiteral &>
\* on another node, safeGet<String> on a value that is no string
LiteralStringError(ast) ==
    IF ast.type # "Literal" THEN "BAD_CAST"
    ELSE IF ~IsStringLiteral(ast) THEN "BAD_GET"
    ELSE ""

\* lines 296-319: [err, eliminated]: the function at group_exprs[i] is to be
\* replaced by its arguments, or the exception thrown while finding out
IsEliminatedFunction(function) ==
    IF function.name \in possibly_injective_function_names
    THEN IF Len(function.children) < 2 THEN [err |-> "", eliminated |-> FALSE]
         ELSE IF LiteralStringError(function.children[1]) # ""
         THEN [err |-> LiteralStringError(function.children[1]), eliminated |-> FALSE]
         ELSE IF ~hasDictionary(function.children[1].name)
         THEN [err |-> "BAD_ARGUMENTS", eliminated |-> FALSE]
         ELSE IF LiteralStringError(function.children[2]) # ""
         THEN [err |-> LiteralStringError(function.children[2]), eliminated |-> FALSE]
         ELSE [err |-> "",
               eliminated |-> isInjective(function.children[1].name,
                                          function.children[2].name)]
    ELSE [err |-> "", eliminated |-> function.name \in injective_function_names]

\* one iteration that always steps to the next index, also after a removal
GroupByStepAdvancing(group_exprs, i) ==
    IF group_exprs[i].type = "Function" /\ IsEliminatedFunction(group_exprs[i]).err # ""
    THEN [err |-> IsEliminatedFunction(group_exprs[i]).err, group_exprs |-> group_exprs, i |-> i]
    ELSE IF group_exprs[i].type = "Function" /\ IsEliminatedFunction(group_exprs[i]).eliminated
    THEN [err |-> "",
          group_exprs |-> remove_expr_at_index(group_exprs, i)
               \o SelectSeq(group_exprs[i].children, LAMBDA a : ~is_literal(a)),
          i |-> i + 1]
    ELSE IF is_literal(group_exprs[i])
    THEN [err |-> "", group_exprs |-> remove_expr_at_index(group_exprs, i), i |-> i + 1]
    ELSE [err |-> "", group_exprs |-> group_exprs, i |-> i + 1]

\* lines 293-343: one iteration of the loop at index i (1-based): the list and
\* the index after it, or the exception thrown with the list as it is
GroupByStep(group_exprs, i) ==
    IF group_exprs[i].type = "Function"
    THEN LET check == IsEliminatedFunction(group_exprs[i]) IN
         IF check.err # ""
         THEN [err |-> check.err, group_exprs |-> group_exprs, i |-> i]
         ELSE IF check.eliminated
         THEN LET args == group_exprs[i].children IN
              [err |-> "",
               group_exprs |-> remove_expr_at_index(group_exprs, i)
                                   \o SelectSeq(args, LAMBDA a : ~is_literal(a)),
               i |-> i]
         ELSE [err |-> "", group_exprs |-> group_exprs, i |-> i + 1]
    ELSE IF is_literal(group_exprs[i])
    THEN [err |-> "", group_exprs |-> remove_expr_at_index(group_exprs, i), i |-> i]
    ELSE [err |-> "", group_exprs |-> group_exprs, i |-> i + 1]

RECURSIVE GroupByLoop(_, _)
\* lines 291-344: the loop over group_exprs, from index i on: [err, group_exprs],
\* group_exprs being the list as the loop or the exception leaves it
GroupByLoop(group_exprs, i) ==
    IF i > Len(group_exprs) THEN [err |-> "", group_exprs |-> group_exprs]
    ELSE LET next == GroupByStep(group_exprs, i) IN
         IF next.err # "" THEN [err |-> next.err, group_exprs |-> next.group_exprs]
         ELSE GroupByLoop(next.group_exprs, next.i)

RECURSIVE GroupByIterations(_, _)
\* line 291: the number of iterations the loop starts from index i on, the one
\* that throws included
GroupByIterations(group_exprs, i) ==
    IF i > Len(group_exprs) THEN 0
    ELSE LET next == GroupByStep(group_exprs, i) IN
         IF next.err # "" THEN 1
         ELSE 1 + GroupByIterations(next.group_exprs, next.i)

\* lines 264-348: [err, select_query]: select_query after the pass, or as the
\* exception leaves it
optimizeGroupBy(select_query, source_columns) ==
    IF ~select_query.group_by.present
    THEN [err |-> "",
          select_query |->
              IF select_query.having # <<>>
              THEN [select_query EXCEPT !.group_by = appendUnusedGroupByColumn(source_columns)]
              ELSE select_query]
    ELSE LET loop == GroupByLoop(select_query.group_by.list, 1) IN
         IF loop.err # ""
         THEN [err |-> loop.err,
               select_query |-> [select_query EXCEPT !.group_by.list = loop.group_exprs]]
         ELSE IF loop.group_exprs = <<>>
         THEN [err |-> "",
               select_query |->
                   [select_query EXCEPT !.group_by = appendUnusedGroupByColumn(source_columns)]]
         ELSE [err |-> "",
               select_query |-> [select_query EXCEPT !.group_by = Clause(loop.group_exprs)]]

-----------------------------------------------------------------------------
(* The list-dedup passes.                                                  *)

RECURSIVE UniqueBy(_, _, _, _)
\* the loop of a dedup pass: the elements of elems from position k on whose key
\* (keys[i] is the key of elems[i]) is not yet in the set seen
UniqueBy(elems, keys, k, seen) ==
    IF k > Len(elems) THEN <<>>
    ELSE IF keys[k] \in seen
    THEN UniqueBy(elems, keys, k + 1, seen)
    ELSE <<elems[k]>> \o UniqueBy(elems, keys, k + 1, seen \cup {keys[k]})

\* the keys of the elements of elems under Key
KeysOf(elems, Key(_)) == [i \in 1..Len(elems) |-> Key(elems[i])]

\* the key of an ASTOrderByElement without its collation
NameWithoutLocale(elem) == <<getColumnName(elem.children[1]), "">>

\* line 369: the (name, locale) pair of an ASTOrderByElement
NameAndLocale(elem) == <<getColumnName(elem.children[1]), elem.collation>>

\* lines 351-375
optimizeOrderBy(select_query) ==
    IF ~select_query.order_by.present THEN select_query
    ELSE [select_query EXCEPT
             !.order_by.list = UniqueBy(select_query.order_by.list,
                                          KeysOf(select_query.order_by.list, NameAndLocale),
                                          1, {})]

\* lines 521-540
optimizeLimitBy(select_query) ==
    IF ~select_query.limit_by.present THEN select_query
    ELSE [select_query EXCEPT
             !.limit_by.list = UniqueBy(select_query.limit_by.list,
                                          KeysOf(select_query.limit_by.list, getColumnName),
                                          1, {})]

\* lines 543-569
optimizeUsing(select_query) ==
    IF ~select_query.join.present \/ ~select_query.join.using.present THEN select_query
    ELSE [select_query EXCEPT
             !.join.using.list = UniqueBy(select_query.join.using.list,
                                          KeysOf(select_query.join.using.list,
                                                 getAliasOrColumnName),
                                          1, {})]

-----------------------------------------------------------------------------
(* Duplicate ORDER BY / DISTINCT removal over the tree of subqueries.      *)

\* the function factory's answer: tryGet(name, context)->isStateful()
isStateful(name) == name \in opts.stateful_functions

\* the factory's answer for the function itself, its arguments not looked at
isStatefulItself(ast_function) == isStateful(ast_function.name)

RECURSIVE isASTFunctionStateful(_)
\* lines 378-399
isASTFunctionStateful(ast_function) ==
    \/ isStateful(ast_function.name)
    \/ \E i \in 1..Len(ast_function.children) :
          /\ ast_function.children[i].type = "Function"
          /\ isASTFunctionStateful(ast_function.children[i])

\* the sequence of the elements of the set S of numbers, ascending
RECURSIVE Ascending(_)
Ascending(S) ==
    IF S = {} THEN <<>>
    ELSE LET m == CHOOSE x \in S : \A y \in S : x <= y IN <<m>> \o Ascending(S \ {m})

\* the subqueries below SELECT n in the order of its children: TABLES before WHERE
ChildSeq(q, n) ==
    Ascending(ChildrenIn(q, n, "from")) \o Ascending(ChildrenIn(q, n, "join"))
        \o Ascending(ChildrenIn(q, n, "where"))

\* lines 408-409: the SELECT has ORDER BY and none of the LIMIT parts
HasOrderByWithoutLimit(select_query) ==
    /\ select_query.order_by.present
    /\ ~select_query.limit_by.present
    /\ ~select_query.limit_by_offset
    /\ ~select_query.limit_by_length
    /\ ~select_query.limit_length
    /\ ~select_query.limit_offset

RECURSIVE ResetOrderBy(_, _, _)
\* lines 406-412 on each of the SELECT queries selects[k], selects[k + 1], ...
ResetOrderBy(q, selects, k) ==
    IF k > Len(selects) THEN q
    ELSE ResetOrderBy(IF HasOrderByWithoutLimit(q[selects[k]])
                      THEN [q EXCEPT ![selects[k]].order_by = NoClause]
                      ELSE q,
                      selects, k + 1)

\* lines 402-421, called on the tables() of SELECT n: the walk stops at the first
\* SELECT on every path, which loses its ORDER BY
optimizeDuplicateOrderByFromSubqueries(q, n) ==
    ResetOrderBy(q, Ascending(TablesChildren(q, n)), 1)

\* the guard taken to ask for an ORDER BY of the enclosing SELECT
HasOrderByOnly(select_query) == select_query.order_by.present

\* line 440: the guard on the enclosing SELECT
HasOrderByOrGroupBy(select_query) ==
    select_query.order_by.present \/ select_query.group_by.present

\* lines 444-449: a selected function is stateful
HasStatefulFunction(select_query) ==
    \E i \in 1..Len(select_query.select) :
        /\ select_query.select[i].type = "Function"
        /\ isASTFunctionStateful(select_query.select[i])

RECURSIVE optimizeDuplicateOrderBy(_, _)
RECURSIVE OrderByOverChildren(_, _, _)
\* lines 426-427: the recursion into the children of n, from the k-th on
OrderByOverChildren(q, children, k) ==
    IF k > Len(children) THEN q
    ELSE OrderByOverChildren(optimizeDuplicateOrderBy(q, children[k]), children, k + 1)

\* lines 424-453, on the SELECT query[n]
optimizeDuplicateOrderBy(q, n) ==
    LET q1 == OrderByOverChildren(q, ChildSeq(q, n), 1) IN
    IF q1[n].set THEN q1
    ELSE IF HasOrderByOrGroupBy(q1[n])
    THEN IF HasStatefulFunction(q1[n]) THEN q1
         ELSE optimizeDuplicateOrderByFromSubqueries(q1, n)
    ELSE q1

\* lines 485-502: current_ids of a DISTINCT SELECT
CurrentIds(select_query) ==
    (IF select_query.select[1].type \in {"Asterisk", "QualifiedAsterisk"}
     THEN <<select_query.table.name>> ELSE <<>>)
    \o [i \in 1..Len(select_query.select) |-> getColumnName(select_query.select[i])]

RECURSIVE optimizeDuplicateDistinctRec(_, _)
RECURSIVE DistinctOverChildren(_, _, _)
\* lines 463-466: st = [q, is_distinct, last_ids] threaded through the children
DistinctOverChildren(st, children, k) ==
    IF k > Len(children) THEN st
    ELSE DistinctOverChildren(optimizeDuplicateDistinctRec(st, children[k]), children, k + 1)

\* lines 456-511, on the SELECT st.q[n]
optimizeDuplicateDistinctRec(st, n) ==
    LET st1 == DistinctOverChildren(st, ChildSeq(st.q, n), 1)
        select_query == st1.q[n]
    IN  IF select_query.set
        THEN [st1 EXCEPT !.is_distinct = FALSE, !.last_ids = <<>>]
        ELSE IF select_query.distinct
        THEN LET current_ids == CurrentIds(select_query) IN
             [q |-> IF st1.is_distinct /\ current_ids = st1.last_ids
                    THEN [st1.q EXCEPT ![n].distinct = FALSE]
                    ELSE st1.q,
              is_distinct |-> TRUE,
              last_ids |-> current_ids]
        ELSE st1

\* lines 513-518
optimizeDuplicateDistinct(q) ==
    optimizeDuplicateDistinctRec([q |-> q, is_distinct |-> FALSE, last_ids |-> <<>>], 1).q

-----------------------------------------------------------------------------
(* ARRAY JOIN and JOIN.                                                    *)

\* Nested::splitName on the names the model uses: split at the first dot
splitName(name) ==
    CASE name = "n.a" -> <<"n", "a">>
      [] name = "n.b" -> <<"n", "b">>
      [] name = "m.a" -> <<"m", "a">>
      [] OTHER -> <<name, "">>

\* Nested::concatenateName
concatenateName(nested_table_name, nested_field_name) ==
    nested_table_name \o "." \o nested_field_name

\* the columns of the nested table source_name, the last one first
NestedColumnsFromEnd(source_columns, source_name) ==
    LET nested == SelectSeq(source_columns,
                            LAMBDA column : /\ splitName(column.name)[1] = source_name
                                            /\ splitName(column.name)[2] # "")
    IN  [i \in 1..Len(nested) |-> nested[Len(nested) + 1 - i]]

\* lines 606-616: the source columns that belong to the nested table source_name
NestedColumnsOf(source_columns, source_name) ==
    SelectSeq(source_columns,
              LAMBDA column : /\ splitName(column.name)[1] = source_name
                              /\ splitName(column.name)[2] # "")

\* lines 580-622: [err, array_join_result_to_source]; visited is the map the
\* ArrayJoinedColumnsVisitor has filled
getArrayJoinedColumns(select_query, visited, source_columns, source_columns_set) ==
    IF ~select_query.array_join.present
    THEN [err |-> "", array_join_result_to_source |-> EmptyMap]
    ELSE IF DOMAIN visited # {}
    THEN [err |-> "", array_join_result_to_source |-> visited]
    ELSE LET expr == select_query.array_join.list[1]
             source_name == getColumnName(expr)
             result_name == getAliasOrColumnName(expr)
             nested == NestedColumnsOf(source_columns, source_name)
         IN  IF expr.type # "Identifier" \/ source_name \in source_columns_set
             THEN [err |-> "",
                   array_join_result_to_source |-> MapPut(visited, result_name, source_name)]
             ELSE IF nested # <<>>
             THEN [err |-> "",
                   array_join_result_to_source |->
                       MapPut(visited,
                              concatenateName(result_name, splitName(nested[1].name)[2]),
                              nested[1].name)]
             ELSE [err |-> "EMPTY_NESTED_TABLE", array_join_result_to_source |-> visited]

\* the default applied to every JOIN without a strictness, CROSS JOIN included
ApplyDefaultToAnyKind(table_join, join_default_strictness) ==
    IF table_join.strictness = "Unspecified"
    THEN IF join_default_strictness = "ANY"
         THEN [err |-> "", table_join |-> [table_join EXCEPT !.strictness = "Any"]]
         ELSE IF join_default_strictness = "ALL"
         THEN [err |-> "", table_join |-> [table_join EXCEPT !.strictness = "All"]]
         ELSE [err |-> "EXPECTED_ALL_OR_ANY", table_join |-> table_join]
    ELSE [err |-> "", table_join |-> table_join]

\* lines 632-642: [err, table_join] after the default strictness is applied
ApplyDefaultStrictness(table_join, join_default_strictness) ==
    IF table_join.strictness = "Unspecified" /\ table_join.kind # "Cross"
    THEN IF join_default_strictness = "ANY"
         THEN [err |-> "", table_join |-> [table_join EXCEPT !.strictness = "Any"]]
         ELSE IF join_default_strictness = "ALL"
         THEN [err |-> "", table_join |-> [table_join EXCEPT !.strictness = "All"]]
         ELSE [err |-> "EXPECTED_ALL_OR_ANY", table_join |-> table_join]
    ELSE [err |-> "", table_join |-> table_join]

\* the ANY rewriting that sends every ANY join, ANY INNER included, to RightAny
AnyToRightAny(table_join, old_any) ==
    IF old_any
    THEN [err |-> "",
          table_join |-> IF table_join.strictness = "Any"
                         THEN [table_join EXCEPT !.strictness = "RightAny"]
                         ELSE table_join]
    ELSE IF table_join.strictness = "Any" /\ table_join.kind = "Full"
    THEN [err |-> "NOT_IMPLEMENTED", table_join |-> table_join]
    ELSE [err |-> "", table_join |-> table_join]

\* lines 644-661: [err, table_join] after the ANY rewriting
ApplyAnyJoinRules(table_join, old_any) ==
    IF old_any
    THEN LET semi == IF table_join.strictness = "Any" /\ table_join.kind = "Inner"
                     THEN [table_join EXCEPT !.strictness = "Semi", !.kind = "Left"]
                     ELSE table_join
         IN  [err |-> "",
              table_join |-> IF semi.strictness = "Any"
                             THEN [semi EXCEPT !.strictness = "RightAny"]
                             ELSE semi]
    ELSE IF table_join.strictness = "Any" /\ table_join.kind = "Full"
    THEN [err |-> "NOT_IMPLEMENTED", table_join |-> table_join]
    ELSE [err |-> "", table_join |-> table_join]

\* lines 624-664 on a query that has a JOIN: [err, table_join], table_join being
\* the node of the AST as the call leaves it
setJoinStrictness(table_join, join_default_strictness, old_any) ==
    LET defaulted == ApplyDefaultStrictness(table_join, join_default_strictness) IN
    IF defaulted.err # "" THEN defaulted
    ELSE ApplyAnyJoinRules(defaulted.table_join, old_any)

\* CollectJoinOnKeysMatcher::Data::asofToJoinKeys: the keys of the inequality
\* of the ON expression join the keys; an ON expression without one is refused
asofToJoinKeys(on_keys) ==
    IF on_keys.asof_right_key = ""
    THEN [err |-> "INVALID_JOIN_ON_EXPRESSION", key_names_right |-> on_keys.key_names_right]
    ELSE [err |-> "",
          key_names_right |-> Append(on_keys.key_names_right, on_keys.asof_right_key)]

\* lines 667-694: [err, has_using, key_names_right]; on_keys is what the
\* CollectJoinOnKeysVisitor has found in the ON expression, tables the number
\* of tables handed in.  tables[0] and tables[1] of lines 686-687 are read
\* unchecked: with fewer than two tables the behaviour is undefined, and
\* crashes tells whether the out-of-bounds read ends the process (SIGSEGV)
\* or the visitor goes on with what it has read.
collectJoinedColumns(select_query, on_keys, tables, crashes) ==
    IF ~select_query.join.present
    THEN [err |-> "", has_using |-> FALSE, key_names_right |-> <<>>]
    ELSE IF select_query.join.using.present
    THEN [err |-> "", has_using |-> TRUE,
          key_names_right |-> [i \in 1..Len(select_query.join.using.list) |->
                                  getAliasOrColumnName(select_query.join.using.list[i])]]
    ELSE IF select_query.join.on_expression
    THEN LET is_asof == select_query.join.strictness = "Asof" IN
         IF tables < 2 /\ crashes
         THEN [err |-> "SIGSEGV", has_using |-> FALSE, key_names_right |-> <<>>]
         ELSE IF ~on_keys.has_some
         THEN [err |-> "INVALID_JOIN_ON_EXPRESSION", has_using |-> FALSE,
               key_names_right |-> <<>>]
         ELSE IF is_asof
         THEN [err |-> asofToJoinKeys(on_keys).err, has_using |-> FALSE,
               key_names_right |-> asofToJoinKeys(on_keys).key_names_right]
         ELSE [err |-> "", has_using |-> FALSE, key_names_right |-> on_keys.key_names_right]
    ELSE [err |-> "", has_using |-> FALSE, key_names_right |-> <<>>]

\* lines 696-722: the AST after the joined table `t` became `(select * from t) as t`
replaceJoinedTable(q) ==
    LET join == q[1].join IN
    IF ~join.present \/ join.table_expression.kind = "none" THEN q
    ELSE IF join.kind = "Cross" THEN q
    ELSE IF /\ join.table_expression.kind = "table"
            /\ join.table_expression.alias = ""
            /\ join.table_expression.short
    THEN Append([q EXCEPT ![1].join.table_expression =
                     [kind |-> "subquery", alias |-> join.table_expression.name,
                      short |-> TRUE, name |-> join.table_expression.name]],
                [BaseSelect EXCEPT
                     !.parent = 1, !.slot = "join",
                     !.select = <<Node("Asterisk", "*", "*", "", <<>>)>>,
                     !.table = [kind |-> "table", name |-> join.table_expression.name]])
    ELSE q

-----------------------------------------------------------------------------
(* Columns: NameAndTypePair, the storage, SyntaxAnalyzerResult.            *)

\* the value collectUsedColumns uses for a type without a maximum size (line 844)
NoMaximumTypeSize == 100

TypeUInt8 == [name |-> "UInt8", haveMaximumSizeOfValue |-> TRUE, maximumSizeOfValueInMemory |-> 1]
TypeUInt64 == [name |-> "UInt64", haveMaximumSizeOfValue |-> TRUE, maximumSizeOfValueInMemory |-> 8]
TypeString == [name |-> "String", haveMaximumSizeOfValue |-> FALSE, maximumSizeOfValueInMemory |-> 0]

Column(name, type) == [name |-> name, type |-> type]

Names(columns) == [i \in 1..Len(columns) |-> columns[i].name]
NameSet(columns) == {columns[i].name : i \in 1..Len(columns)}

NoStorage ==
    [present |-> FALSE, columns |-> <<>>, physical |-> <<>>, virtuals |-> <<>>,
     column_sizes |-> [x \in {} |-> [data_compressed |-> 0, data_uncompressed |-> 0]]]

\* IStorage::hasColumn / getColumn: an ordinary or a virtual column of the table
hasColumn(storage, name) == name \in NameSet(storage.columns \o storage.virtuals)
getColumn(storage, name) ==
    LET all == storage.columns \o storage.virtuals IN
    all[CHOOSE i \in 1..Len(all) : all[i].name = name /\ \A j \in 1..(i - 1) : all[j].name # name]

\* removeDuplicateColumns: the first column of every name stays
removeDuplicateColumns(columns) == UniqueBy(columns, Names(columns), 1, {})

\* lines 745-759: source_columns after the constructor's collectSourceColumns
collectSourceColumns(source_columns, storage, add_virtuals) ==
    removeDuplicateColumns(
        IF storage.present
        THEN source_columns \o (IF add_virtuals THEN storage.columns ELSE storage.physical)
        ELSE source_columns)

\* line 844
TypeSize(type) ==
    IF type.haveMaximumSizeOfValue THEN type.maximumSizeOfValueInMemory ELSE NoMaximumTypeSize

\* the tuples compared by their compressed size alone
CompressedSizeLess(a, b) == a.compressed_size < b.compressed_size

\* lines 829-833: ColumnSizeTuple::operator<
ColumnSizeLess(a, b) ==
    \/ a.compressed_size < b.compressed_size
    \/ /\ a.compressed_size = b.compressed_size
       /\ \/ a.type_size < b.type_size
          \/ /\ a.type_size = b.type_size
             /\ a.uncompressed_size < b.uncompressed_size

\* lines 835-847: the tuples of the source columns the storage reports sizes for
ColumnSizeTuples(source_columns, storage) ==
    IF ~storage.present THEN <<>>
    ELSE LET sized == SelectSeq(source_columns,
                                LAMBDA c : c.name \in DOMAIN storage.column_sizes)
         IN  [i \in 1..Len(sized) |->
                [compressed_size |-> storage.column_sizes[sized[i].name].data_compressed,
                 type_size |-> TypeSize(sized[i].type),
                 uncompressed_size |-> storage.column_sizes[sized[i].name].data_uncompressed,
                 name |-> sized[i].name]]

RECURSIVE MinElement(_, _, _)
\* line 849: std::min_element, the first of the smallest tuples; the smallest so
\* far is at position m and the scan is at position k
MinElement(columns, m, k) ==
    IF k > Len(columns) THEN columns[m]
    ELSE IF ColumnSizeLess(columns[k], columns[m]) THEN MinElement(columns, k, k + 1)
    ELSE MinElement(columns, m, k + 1)

RECURSIVE SmallestTypeColumn(_, _, _)
\* the scan of getSmallestColumn: a column replaces the smallest so far when its
\* type size is smaller
SmallestTypeColumn(columns, m, k) ==
    IF k > Len(columns) THEN columns[m]
    ELSE IF TypeSize(columns[k].type) < TypeSize(columns[m].type)
    THEN SmallestTypeColumn(columns, k, k + 1)
    ELSE SmallestTypeColumn(columns, m, k + 1)

\* ExpressionActions::getSmallestColumn: the first column of the smallest type size;
\* the list must not be empty
getSmallestColumn(columns) ==
    SmallestTypeColumn(columns, 1, 2).name

-----------------------------------------------------------------------------
(* Required-columns analysis.                                              *)

\* RequiredSourceColumnsData::nameInclusion
nameInclusion(columns_context, name) ==
    IF name \in DOMAIN columns_context.required_names
    THEN columns_context.required_names[name] ELSE 0

\* RequiredSourceColumnsData::requiredColumns
requiredColumns(columns_context) == DOMAIN columns_context.required_names

\* AnalyzedJoin::rightKeyInclusion
rightKeyInclusion(analyzed_join, name) ==
    IF analyzed_join.has_using THEN 0
    ELSE Cardinality({i \in 1..Len(analyzed_join.key_names_right) :
                         analyzed_join.key_names_right[i] = name})

\* AnalyzedJoin::deduplicateAndQualifyColumnNames: the first column of every
\* name stays, and a name of the left table gets the prefix of the right table
deduplicateAndQualifyColumnNames(columns, left_table_columns, right_table_prefix) ==
    LET dedup_columns == removeDuplicateColumns(columns) IN
    [i \in 1..Len(dedup_columns) |->
        IF dedup_columns[i].name \in left_table_columns
        THEN [dedup_columns[i] EXCEPT !.name = right_table_prefix \o @]
        ELSE dedup_columns[i]]

\* line 789 and 792: the joined-table columns the loop of lines 786-800 acts on
JoinedAndRequired(res, columns_context) ==
    removeDuplicateColumns(
        SelectSeq(res.analyzed_join.columns_from_joined_table,
                  LAMBDA c : /\ c.name \notin NameSet(res.source_columns)
                             /\ c.name \in requiredColumns(columns_context)))

\* every referenced joined column promoted, however often it is a right key
PromotedWhenReferenced(res, columns_context) == JoinedAndRequired(res, columns_context)

\* lines 795-796: the columns handed to analyzed_join->addJoinedColumn
ColumnsAddedByJoin(res, columns_context) ==
    SelectSeq(JoinedAndRequired(res, columns_context),
              LAMBDA c : nameInclusion(columns_context, c.name)
                             > rightKeyInclusion(res.analyzed_join, c.name))

\* lines 777-801: required after the JOIN block
RequiredAfterJoin(res, columns_context) ==
    IF columns_context.has_table_join
    THEN requiredColumns(columns_context) \ NameSet(JoinedAndRequired(res, columns_context))
    ELSE requiredColumns(columns_context)

\* the set of lines 803-809 left empty
NoArrayJoinSources(res, columns_context) == {}

\* lines 803-809
ArrayJoinSources(res, columns_context) ==
    IF columns_context.has_array_join
    THEN {res.array_join_result_to_source[k] : k \in DOMAIN res.array_join_result_to_source}
    ELSE {}

\* lines 810-813: required after the ARRAY JOIN block
RequiredAfterArrayJoin(res, columns_context) ==
    RequiredAfterJoin(res, columns_context)
        \cup (ArrayJoinSources(res, columns_context) \cap NameSet(res.source_columns))

\* line 818: the branch that must find a column to read
NeedsAnyColumn(res, columns_context, is_select) ==
    is_select /\ RequiredAfterArrayJoin(res, columns_context) = {}

\* lines 835-852: the name inserted into required; "" stands for the exception of
\* getSmallestColumn on an empty list
CheapestColumn(res, storage) ==
    LET columns == ColumnSizeTuples(res.source_columns, storage) IN
    IF columns # <<>> THEN MinElement(columns, 1, 2).name
    ELSE IF res.source_columns # <<>> THEN getSmallestColumn(res.source_columns)
    ELSE ""

\* lines 777-853: the final required set
FinalRequired(res, columns_context, is_select, storage) ==
    IF NeedsAnyColumn(res, columns_context, is_select)
    THEN {CheapestColumn(res, storage)} \ {""}
    ELSE RequiredAfterArrayJoin(res, columns_context)

\* lines 857-866: unknown_required_source_columns after the loop over source_columns
UnknownAfterSource(res, required) == required \ NameSet(res.source_columns)

\* the storage never asked for the unknown names
FoundNothingInStorage(res, required, storage) == {}

\* lines 870-882: the unknown names the storage has a column for
FoundInStorage(res, required, storage) ==
    IF storage.present
    THEN {name \in UnknownAfterSource(res, required) : hasColumn(storage, name)}
    ELSE {}

\* source_columns left as the loops of lines 857-882 have made it
SourceColumnsPruned(res, pruned) == pruned

\* lines 768 and 922: the swap on exit gives source_columns the list that was
\* saved in required_source_columns on entry
SourceColumnsOnExit(res, pruned) == res.source_columns

\* lines 765-923.  storage_order lists FoundInStorage in the order in which the
\* loop of lines 872-881 meets them in the unordered set.
collectUsedColumns(res, columns_context, is_select, storage, storage_order) ==
    LET with_join == IF columns_context.has_table_join
                     THEN [res EXCEPT !.analyzed_join.columns_added_by_join =
                                          @ \o ColumnsAddedByJoin(res, columns_context)]
                     ELSE res
        needs_any == NeedsAnyColumn(res, columns_context, is_select)
        flagged == IF needs_any
                   THEN [with_join EXCEPT !.maybe_optimize_trivial_count = TRUE]
                   ELSE with_join
        required == FinalRequired(res, columns_context, is_select, storage)
        kept == SelectSeq(res.source_columns, LAMBDA c : c.name \in required)
        pruned == kept \o [i \in 1..Len(storage_order) |-> getColumn(storage, storage_order[i])]
        unknown == UnknownAfterSource(res, required) \ FoundInStorage(res, required, storage)
        lcl == [required |-> required,
                unknown_required_source_columns |-> unknown,
                array_join_sources |-> ArrayJoinSources(res, columns_context)]
    IN  IF needs_any /\ CheapestColumn(res, storage) = ""
        THEN [err |-> "LOGICAL_ERROR",
              result |-> [flagged EXCEPT !.required_source_columns = res.source_columns],
              locals |-> [lcl EXCEPT !.unknown_required_source_columns = {}]]
        ELSE IF unknown # {}
        THEN [err |-> "UNKNOWN_IDENTIFIER",
              result |-> [flagged EXCEPT !.required_source_columns = res.source_columns,
                                         !.source_columns = pruned],
              locals |-> lcl]
        ELSE [err |-> "",
              result |-> [flagged EXCEPT !.required_source_columns = pruned,
                                         !.source_columns = SourceColumnsOnExit(res, pruned)],
              locals |-> lcl]

-----------------------------------------------------------------------------
(* Name translation (TranslateQualifiedNamesVisitor): the expansion of the  *)
(* asterisk and of COLUMNS('regexp') in the SELECT list.                    *)

\* whether the regular expression of a COLUMNS matcher matches the column name
ColumnsMatch(regexp, name) ==
    CASE regexp = "^x" -> name \in {"x", "x_1"}
      [] OTHER -> FALSE

\* the elements that replace the SELECT element elem
ExpandElement(elem, column_names) ==
    IF elem.type = "Asterisk"
    THEN [i \in 1..Len(column_names) |-> Identifier(column_names[i])]
    ELSE IF elem.type = "ColumnsMatcher"
    THEN LET matched == SelectSeq(column_names, LAMBDA n : ColumnsMatch(elem.name, n)) IN
         [i \in 1..Len(matched) |-> Identifier(matched[i])]
    ELSE <<elem>>

\* lines 88-99: [err, select], the SELECT list after the visitor and the check
translateQualifiedNames(select_query, column_names) ==
    LET expanded == Flatten([i \in 1..Len(select_query.select) |->
                                ExpandElement(select_query.select[i], column_names)])
    IN  [err |-> IF expanded = <<>> THEN "EMPTY_LIST_OF_COLUMNS_QUERIED" ELSE "",
         select |-> expanded]

-----------------------------------------------------------------------------
(* The calls.  pc names the statement that runs next.                      *)

UpperCaseLetters ==
    <<"A", "B", "C", "D", "E", "F", "G", "H", "I", "J", "K", "L", "M",
      "N", "O", "P", "Q", "R", "S", "T", "U", "V", "W", "X", "Y", "Z">>
LowerCaseLetters ==
    <<"a", "b", "c", "d", "e", "f", "g", "h", "i", "j", "k", "l", "m",
      "n", "o", "p", "q", "r", "s", "t", "u", "v", "w", "x", "y", "z">>

\* Poco::Ascii::toLower
toLowerChar(ch) ==
    IF \E i \in 1..Len(UpperCaseLetters) : UpperCaseLetters[i] = ch
    THEN LowerCaseLetters[CHOOSE i \in 1..Len(UpperCaseLetters) : UpperCaseLetters[i] = ch]
    ELSE ch

RECURSIVE toLower(_)
\* Poco::toLower: every character of the string in lower case
toLower(str) ==
    IF str = "" THEN ""
    ELSE toLowerChar(SubSeq(str, 1, 1)) \o toLower(SubSeq(str, 2, Len(str)))

RECURSIVE ColumnNames(_)
\* the column names of the arguments, separated by ", "
ColumnNames(args) ==
    IF args = <<>> THEN ""
    ELSE IF Len(args) = 1 THEN getColumnName(args[1])
    ELSE getColumnName(args[1]) \o ", " \o ColumnNames(Tail(args))

\* ASTFunction::appendColumnNameImpl
FunctionColumnName(name, args) == name \o "(" \o ColumnNames(args) \o ")"

RECURSIVE CustomizeFunctions(_, _)
RECURSIVE CustomizeFunctionsIn(_, _)
\* lines 68-82: the expression after the CustomizeFunctionsVisitor: every
\* function at every depth whose lower-cased name is countdistinct is named
\* count_distinct; the column name of a function follows its name and arguments
CustomizeFunctions(ast, count_distinct) ==
    LET children == CustomizeFunctionsIn(ast.children, count_distinct)
        name == IF ast.type = "Function" /\ toLower(ast.name) = "countdistinct"
                THEN count_distinct ELSE ast.name
    IN  IF name = ast.name /\ children = ast.children THEN ast
        ELSE [ast EXCEPT !.name = name, !.children = children,
                         !.column_name = IF ast.type = "Function"
                                         THEN FunctionColumnName(name, children)
                                         ELSE @]

CustomizeFunctionsIn(list, count_distinct) ==
    IF list = <<>> THEN <<>>
    ELSE <<CustomizeFunctions(Head(list), count_distinct)>>
             \o CustomizeFunctionsIn(Tail(list), count_distinct)

RECURSIVE CustomizeFunctionsVisitor(_, _, _)
\* lines 1039-1040: the visitor over the whole query, the SELECT queries from
\* index c on
CustomizeFunctionsVisitor(q, count_distinct, c) ==
    IF c > Len(q) THEN q
    ELSE CustomizeFunctionsVisitor(
             [q EXCEPT ![c].select = CustomizeFunctionsIn(@, count_distinct),
                       ![c].prewhere = CustomizeFunctionsIn(@, count_distinct),
                       ![c].where = CustomizeFunctionsIn(@, count_distinct),
                       ![c].group_by.list = CustomizeFunctionsIn(@, count_distinct),
                       ![c].having = CustomizeFunctionsIn(@, count_distinct),
                       ![c].order_by.list = CustomizeFunctionsIn(@, count_distinct),
                       ![c].limit_by.list = CustomizeFunctionsIn(@, count_distinct),
                       ![c].array_join.list = CustomizeFunctionsIn(@, count_distinct),
                       ![c].join.using.list = CustomizeFunctionsIn(@, count_distinct)],
             count_distinct, c + 1)

\* AggregateFunctionFactory::isAggregateFunctionName
isAggregateFunction(name) == name \in opts.aggregate_functions

RECURSIVE AggregatesOf(_)
RECURSIVE AggregatesIn(_)
\* GetAggregatesVisitor: every aggregate call of the expression in the order of
\* the visit; neither a subquery nor the arguments of an aggregate are entered
AggregatesOf(ast) ==
    IF ast.type = "SelectQuery" THEN <<>>
    ELSE IF ast.type = "Function" /\ isAggregateFunction(ast.name) THEN <<ast>>
    ELSE AggregatesIn(ast.children)

AggregatesIn(list) ==
    IF list = <<>> THEN <<>> ELSE AggregatesOf(Head(list)) \o AggregatesIn(Tail(list))

\* assertNoAggregates(ast, description): the exception it throws, "" for none
assertNoAggregates(list) == IF AggregatesIn(list) # <<>> THEN "ILLEGAL_AGGREGATION" ELSE ""

\* the expressions of the SELECT query in the order of its children: SELECT list,
\* tables (ARRAY JOIN, JOIN ... USING), PREWHERE, WHERE, GROUP BY, HAVING,
\* ORDER BY, LIMIT BY; the subqueries are separate entries of the tree
QueryExpressions(select_query) ==
    select_query.select \o select_query.array_join.list
        \o select_query.join.using.list
        \o select_query.prewhere \o select_query.where
        \o select_query.group_by.list \o select_query.having
        \o select_query.order_by.list \o select_query.limit_by.list

\* lines 724-740: [err, aggregates]; the visitor of line 733 is handed the
\* whole query
getAggregates(select_query) ==
    IF assertNoAggregates(select_query.where) # ""
    THEN [err |-> assertNoAggregates(select_query.where), aggregates |-> <<>>]
    ELSE IF assertNoAggregates(select_query.prewhere) # ""
    THEN [err |-> assertNoAggregates(select_query.prewhere), aggregates |-> <<>>]
    ELSE LET aggregates == AggregatesIn(QueryExpressions(select_query))
         IN  IF \E i \in 1..Len(aggregates) : assertNoAggregates(aggregates[i].children) # ""
             THEN [err |-> "ILLEGAL_AGGREGATION", aggregates |-> <<>>]
             ELSE [err |-> "", aggregates |-> aggregates]

IsSelect == query # <<>>

RECURSIVE IdentifiersIn(_)
\* the column identifiers of an expression, subqueries left out, one entry per use
IdentifiersIn(ast) ==
    IF ast.type = "Identifier" THEN <<ast.name>>
    ELSE IF ast.type = "SelectQuery" THEN <<>>
    ELSE Flatten([i \in 1..Len(ast.children) |-> IdentifiersIn(ast.children[i])])

\* RequiredSourceColumnsVisitor: every referenced column name with the number of
\* its uses; other holds the uses outside the SELECT list
RequiredNames(q, other) ==
    LET selected == IF q = <<>> THEN <<>>
                    ELSE Flatten([i \in 1..Len(q[1].select) |-> IdentifiersIn(q[1].select[i])])
    IN  [n \in Range(selected) \cup DOMAIN other |->
            Cardinality({i \in 1..Len(selected) : selected[i] = n})
                + (IF n \in DOMAIN other THEN other[n] ELSE 0)]

Goto(next) == pc' = next /\ err' = err
Throw(code) == pc' = "failed" /\ err' = code
Logged(names) == log' = log \o names

\* the RequiredSourceColumnsVisitor's data for the analysed query
ColumnsContext ==
    [required_names |-> RequiredNames(query, opts.other_required_names),
     has_table_join |-> IsSelect /\ query[1].join.present,
     has_array_join |-> IsSelect /\ query[1].array_join.present]

\* the SyntaxAnalyzerResult constructor: collectSourceColumns(add_virtuals); the
\* caller of analyzeSelect runs it before the call, analyze at line 1023
Construct ==
    /\ pc = "construct"
    /\ LET columns == collectSourceColumns(opts.source_columns, opts.storage,
                          IF opts.entry = "analyze" THEN FALSE ELSE opts.add_virtuals)
       IN  result' = [result EXCEPT !.source_columns = columns,
                                    !.source_columns_set = NameSet(columns)]
    /\ Goto(IF opts.entry = "analyze" THEN "normalize" ELSE "analyzeSelect")
    /\ UNCHANGED <<log, query, opts, locals>>

\* lines 932-961 of analyzeSelect
AnalyzeSelectEntry ==
    /\ pc = "analyzeSelect"
    /\ IF ~IsSelect
       THEN Throw("LOGICAL_ERROR") /\ UNCHANGED result
       ELSE /\ Goto("renameDuplicatedColumns")
            /\ result' = [result EXCEPT
                   !.analyzed_join.columns_from_joined_table =
                        IF opts.tables_with_columns > 1
                        THEN deduplicateAndQualifyColumnNames(
                                 opts.columns_from_joined_table,
                                 result.source_columns_set, opts.right_table_prefix)
                        ELSE <<>>]
    /\ UNCHANGED <<log, query, opts, locals>>

\* lines 1018-1019 of analyze
AnalyzeEntry ==
    /\ pc = "analyze"
    /\ IF IsSelect THEN Throw("LOGICAL_ERROR") ELSE Goto("construct")
    /\ UNCHANGED <<log, query, opts, result, locals>>

\* lines 944-945
RenameDuplicatedColumns ==
    /\ pc = "renameDuplicatedColumns"
    /\ IF opts.remove_duplicates
       THEN /\ query' = [query EXCEPT ![1].select = renameDuplicatedColumns(@)]
            /\ Logged(<<"renameDuplicatedColumns">>)
       ELSE UNCHANGED <<query, log>>
    /\ Goto("replaceJoinedTable")
    /\ UNCHANGED <<opts, result, locals>>

\* lines 947-948
ReplaceJoinedTable ==
    /\ pc = "replaceJoinedTable"
    /\ IF opts.enable_optimize_predicate_expression
       THEN /\ query' = replaceJoinedTable(query)
            /\ Logged(<<"replaceJoinedTable">>)
       ELSE UNCHANGED <<query, log>>
    /\ Goto("translateQualifiedNames")
    /\ UNCHANGED <<opts, result, locals>>

\* line 963
TranslateQualifiedNames ==
    /\ pc = "translateQualifiedNames"
    /\ LET r == translateQualifiedNames(query[1],
                    Names(result.source_columns)
                        \o Names(result.analyzed_join.columns_from_joined_table))
       IN  /\ query' = [query EXCEPT ![1].select = r.select]
           /\ IF r.err # "" THEN Throw(r.err) ELSE Goto("LogicalExpressionsOptimizer")
    /\ Logged(<<"TranslateQualifiedNamesVisitor">>)
    /\ UNCHANGED <<opts, result, locals>>

\* line 966
LogicalExpressionsOptimizer ==
    /\ pc = "LogicalExpressionsOptimizer"
    /\ Logged(<<"LogicalExpressionsOptimizer">>)
    /\ Goto("normalize")
    /\ UNCHANGED <<query, opts, result, locals>>

\* the alias map built only after the normalizer has run
normalizeBeforeAliases ==
    <<"CustomizeFunctionsVisitor", "MarkTableIdentifiersVisitor",
      "QueryNormalizer", "QueryAliasesVisitor">>

\* lines 1037-1052: the visitors of normalize in the order of their calls
normalize ==
    <<"CustomizeFunctionsVisitor", "QueryAliasesVisitor",
      "MarkTableIdentifiersVisitor", "QueryNormalizer">>

\* line 968 and line 1025
Normalize ==
    /\ pc = "normalize"
    /\ query' = CustomizeFunctionsVisitor(query, opts.count_distinct_implementation, 1)
    /\ opts' = [opts EXCEPT !.expression =
                    CustomizeFunctionsIn(@, opts.count_distinct_implementation)]
    /\ Logged(normalize)
    /\ Goto(IF opts.entry = "analyzeSelect"
            THEN "removeUnneededColumnsFromSelectClause"
            ELSE "executeScalarSubqueries")
    /\ UNCHANGED <<result, locals>>

\* line 974
RemoveUnneededColumnsFromSelectClause ==
    /\ pc = "removeUnneededColumnsFromSelectClause"
    /\ query' = [query EXCEPT ![1].select =
                    removeUnneededColumnsFromSelectClause(query[1],
                        opts.required_result_columns, opts.remove_duplicates)]
    /\ Logged(<<"removeUnneededColumnsFromSelectClause">>)
    /\ Goto("executeScalarSubqueries")
    /\ UNCHANGED <<opts, result, locals>>

\* lines 197-202, called at line 977 and at line 1028
ExecuteScalarSubqueries ==
    /\ pc = "executeScalarSubqueries"
    /\ Logged(<<"ExecuteScalarSubqueriesVisitor">>)
    /\ Goto("optimizeIf")
    /\ UNCHANGED <<query, opts, result, locals>>

\* lines 571-578, called at line 980 and at line 1030
OptimizeIf ==
    /\ pc = "optimizeIf"
    /\ Logged(<<"OptimizeIfWithConstantConditionVisitor">>
              \o (IF opts.optimize_if_chain_to_miltiif
                  THEN <<"OptimizeIfChainsVisitor">> ELSE <<>>))
    /\ Goto(IF opts.entry = "analyzeSelect"
            THEN "PredicateExpressionsOptimizer" ELSE "assertNoAggregates")
    /\ UNCHANGED <<query, opts, result, locals>>

\* line 983
PredicateExpressionsOptimizer ==
    /\ pc = "PredicateExpressionsOptimizer"
    /\ result' = [result EXCEPT !.rewrite_subqueries = opts.rewrite_subqueries]
    /\ Logged(<<"PredicateExpressionsOptimizer">>)
    /\ Goto("optimizeGroupBy")
    /\ UNCHANGED <<query, opts, locals>>

\* line 986
OptimizeGroupBy ==
    /\ pc = "optimizeGroupBy"
    /\ LET r == optimizeGroupBy(query[1], result.source_columns_set) IN
           /\ query' = [query EXCEPT ![1] = r.select_query]
           /\ IF r.err # "" THEN Throw(r.err) ELSE Goto("optimizeOrderBy")
    /\ Logged(<<"optimizeGroupBy">>)
    /\ UNCHANGED <<opts, result, locals>>

\* line 989
OptimizeOrderBy ==
    /\ pc = "optimizeOrderBy"
    /\ query' = [query EXCEPT ![1] = optimizeOrderBy(@)]
    /\ Logged(<<"optimizeOrderBy">>)
    /\ Goto("optimizeDuplicateOrderBy")
    /\ UNCHANGED <<opts, result, locals>>

\* line 992
OptimizeDuplicateOrderBy ==
    /\ pc = "optimizeDuplicateOrderBy"
    /\ query' = optimizeDuplicateOrderBy(query, 1)
    /\ Logged(<<"optimizeDuplicateOrderBy">>)
    /\ Goto("optimizeDuplicateDistinct")
    /\ UNCHANGED <<opts, result, locals>>

\* line 995
OptimizeDuplicateDistinct ==
    /\ pc = "optimizeDuplicateDistinct"
    /\ query' = optimizeDuplicateDistinct(query)
    /\ Logged(<<"optimizeDuplicateDistinct">>)
    /\ Goto("optimizeLimitBy")
    /\ UNCHANGED <<opts, result, locals>>

\* line 998
OptimizeLimitBy ==
    /\ pc = "optimizeLimitBy"
    /\ query' = [query EXCEPT ![1] = optimizeLimitBy(@)]
    /\ Logged(<<"optimizeLimitBy">>)
    /\ Goto("optimizeUsing")
    /\ UNCHANGED <<opts, result, locals>>

\* line 1001
OptimizeUsing ==
    /\ pc = "optimizeUsing"
    /\ query' = [query EXCEPT ![1] = optimizeUsing(@)]
    /\ Logged(<<"optimizeUsing">>)
    /\ Goto("getArrayJoinedColumns")
    /\ UNCHANGED <<opts, result, locals>>

\* line 1004
GetArrayJoinedColumns ==
    /\ pc = "getArrayJoinedColumns"
    /\ LET r == getArrayJoinedColumns(query[1], opts.array_join_visited,
                                      result.source_columns, result.source_columns_set)
       IN  /\ result' = [result EXCEPT
                            !.array_join_result_to_source = r.array_join_result_to_source]
           /\ IF r.err # "" THEN Throw(r.err) ELSE Goto("setJoinStrictness")
    /\ Logged(<<"getArrayJoinedColumns">>)
    /\ UNCHANGED <<query, opts, locals>>

\* lines 1006-1007
SetJoinStrictness ==
    /\ pc = "setJoinStrictness"
    /\ IF ~query[1].join.present
       THEN Goto("collectJoinedColumns") /\ UNCHANGED <<query, result>>
       ELSE LET r == setJoinStrictness(query[1].join, opts.join_default_strictness,
                                       opts.any_join_distinct_right_table_keys)
            IN  /\ query' = [query EXCEPT ![1].join = r.table_join]
                /\ IF r.err # ""
                   THEN Throw(r.err) /\ UNCHANGED result
                   ELSE /\ Goto("collectJoinedColumns")
                        /\ result' = [result EXCEPT !.analyzed_join.table_join =
                                         [kind |-> r.table_join.kind,
                                          strictness |-> r.table_join.strictness]]
    /\ Logged(<<"setJoinStrictness">>)
    /\ UNCHANGED <<opts, locals>>

\* line 1008
CollectJoinedColumns ==
    /\ pc = "collectJoinedColumns"
    /\ \E crashes \in BOOLEAN :
       LET r == collectJoinedColumns(query[1], opts.on_keys,
                                     opts.tables_with_columns, crashes) IN
           /\ result' = [result EXCEPT !.analyzed_join.has_using = r.has_using,
                                       !.analyzed_join.key_names_right = r.key_names_right]
           /\ IF r.err # "" THEN Throw(r.err) ELSE Goto("getAggregates")
    /\ Logged(<<"collectJoinedColumns">>)
    /\ UNCHANGED <<query, opts, locals>>

\* line 1011
GetAggregates ==
    /\ pc = "getAggregates"
    /\ LET r == getAggregates(query[1]) IN
           /\ result' = [result EXCEPT !.aggregates = r.aggregates]
           /\ IF r.err # "" THEN Throw(r.err) ELSE Goto("collectUsedColumns")
    /\ Logged(<<"getAggregates">>)
    /\ UNCHANGED <<query, opts, locals>>

\* line 1032
AssertNoAggregates ==
    /\ pc = "assertNoAggregates"
    /\ IF assertNoAggregates(opts.expression) # ""
       THEN Throw(assertNoAggregates(opts.expression))
       ELSE Goto("collectUsedColumns")
    /\ Logged(<<"assertNoAggregates">>)
    /\ UNCHANGED <<query, opts, result, locals>>

\* lines 765-923, called at line 1012 and at line 1033
CollectUsedColumns ==
    /\ pc = "collectUsedColumns"
    /\ \E storage_order \in Permutations_(
              FoundInStorage(result,
                             FinalRequired(result, ColumnsContext, IsSelect, opts.storage),
                             opts.storage)) :
          LET r == collectUsedColumns(result, ColumnsContext, IsSelect, opts.storage,
                                      storage_order)
          IN  /\ result' = r.result
              /\ locals' = r.locals
              /\ IF r.err # "" THEN Throw(r.err) ELSE Goto("done")
    /\ Logged(<<"collectUsedColumns">>)
    /\ UNCHANGED <<query, opts>>

Next ==
    \/ Construct
    \/ AnalyzeSelectEntry
    \/ AnalyzeEntry
    \/ RenameDuplicatedColumns
    \/ ReplaceJoinedTable
    \/ TranslateQualifiedNames
    \/ LogicalExpressionsOptimizer
    \/ Normalize
    \/ RemoveUnneededColumnsFromSelectClause
    \/ ExecuteScalarSubqueries
    \/ OptimizeIf
    \/ PredicateExpressionsOptimizer
    \/ OptimizeGroupBy
    \/ OptimizeOrderBy
    \/ OptimizeDuplicateOrderBy
    \/ OptimizeDuplicateDistinct
    \/ OptimizeLimitBy
    \/ OptimizeUsing
    \/ GetArrayJoinedColumns
    \/ SetJoinStrictness
    \/ CollectJoinedColumns
    \/ GetAggregates
    \/ AssertNoAggregates
    \/ CollectUsedColumns

-----------------------------------------------------------------------------
(* Initial states: the calls that are analysed.                            *)

\* the SyntaxAnalyzerResult before its constructor has run
EmptyResult ==
    [source_columns |-> <<>>, source_columns_set |-> {},
     required_source_columns |-> <<>>,
     maybe_optimize_trivial_count |-> FALSE,
     rewrite_subqueries |-> FALSE,
     array_join_result_to_source |-> EmptyMap,
     analyzed_join |->
         [table_join |-> [kind |-> "Inner", strictness |-> "Unspecified"],
          columns_from_joined_table |-> <<>>,
          columns_added_by_join |-> <<>>,
          has_using |-> FALSE,
          key_names_right |-> <<>>],
     aggregates |-> <<>>]

EmptyLocals ==
    [required |-> {}, unknown_required_source_columns |-> {}, array_join_sources |-> {}]

\* table t(x UInt64, y String) without size information, no JOIN
BaseStorage ==
    [present |-> TRUE,
     columns |-> <<Column("x", TypeUInt64), Column("y", TypeString)>>,
     physical |-> <<Column("x", TypeUInt64), Column("y", TypeString)>>,
     virtuals |-> <<Column("_part", TypeString)>>,
     column_sizes |-> [n \in {} |-> [data_compressed |-> 0, data_uncompressed |-> 0]]]

BaseOpts ==
    [entry |-> "analyzeSelect",
     source_columns |-> <<>>, storage |-> BaseStorage, add_virtuals |-> TRUE,
     remove_duplicates |-> FALSE, required_result_columns |-> <<>>,
     enable_optimize_predicate_expression |-> TRUE,
     optimize_if_chain_to_miltiif |-> FALSE,
     join_default_strictness |-> "ALL",
     any_join_distinct_right_table_keys |-> FALSE,
     tables_with_columns |-> 1,
     right_table_prefix |-> "b.",
     columns_from_joined_table |-> <<>>,
     on_keys |-> [has_some |-> TRUE, key_names_right |-> <<>>, asof_right_key |-> ""],
     count_distinct_implementation |-> "uniqExact",
     aggregate_functions |-> {"count", "sum", "uniq", "uniqExact"},
     expression |-> <<>>,
     query |-> <<>>,
     other_required_names |-> [n \in {} |-> 1],
     array_join_visited |-> EmptyMap,
     rewrite_subqueries |-> FALSE,
     dictionaries |-> {"dict"},
     injective_attributes |-> {<<"dict", "inj">>},
     stateful_functions |-> {"runningDifference"}]

\* a call on the query q with the options o
Call(q, o) ==
    /\ pc = IF o.entry = "analyze" THEN "analyze" ELSE "construct"
    /\ err = ""
    /\ log = <<>>
    /\ query = q
    /\ opts = [o EXCEPT !.query = q]
    /\ result = [EmptyResult EXCEPT !.source_columns = o.source_columns]
    /\ locals = EmptyLocals

SumX == Function("sum", "sum(x)", <<Identifier("x")>>)
CountDistinctX == Function("countDistinct", "countDistinct(x)", <<Identifier("x")>>)
UniqExactX == Function("uniqExact", "uniqExact(x)", <<Identifier("x")>>)
GreaterThan0(ast) ==
    Function("greater", "greater(" \o ast.column_name \o ", 0)", <<ast, Literal("0")>>)
\* HAVING count() > 0
HavingCount == GreaterThan0(Function("count", "count()", <<>>))

\* SELECT countDistinct(x), CountDistinct(x) AS c, plus(cOuNtDiStInCt(x), 1) FROM t;
\* SELECT sum(x) FROM t; SELECT sum(sum(x)) FROM t; SELECT sum(countDistinct(x)) FROM t;
\* SELECT x FROM t WHERE / PREWHERE sum(x) > 0, x > 0 or countDistinct(x) > 0;
\* SELECT x FROM t with ORDER BY countDistinct(x), uniqExact(x), with
\* LIMIT 1 BY sum(x), with HAVING count() > 0, with ARRAY JOIN sum(x) AS s and
\* with ORDER BY sum(x), sum(x) DESC LIMIT 1 BY sum(x)
AggregateSelects ==
    {[BaseSelect EXCEPT !.select =
         <<Function("countDistinct", "countDistinct(x)", <<Identifier("x")>>),
           WithAlias(Function("CountDistinct", "CountDistinct(x)", <<Identifier("x")>>), "c"),
           Function("plus", "plus(cOuNtDiStInCt(x), 1)",
                    <<Function("cOuNtDiStInCt", "cOuNtDiStInCt(x)", <<Identifier("x")>>),
                      Literal("1")>>)>>],
     [BaseSelect EXCEPT !.select = <<SumX>>],
     [BaseSelect EXCEPT !.select = <<Function("sum", "sum(sum(x))", <<SumX>>)>>],
     [BaseSelect EXCEPT !.select =
         <<Function("sum", "sum(countDistinct(x))",
                    <<Function("countDistinct", "countDistinct(x)", <<Identifier("x")>>)>>)>>]}
        \cup {[BaseSelect EXCEPT !.where = <<GreaterThan0(e)>>] :
                  e \in {SumX, Identifier("x"), CountDistinctX}}
        \cup {[BaseSelect EXCEPT !.prewhere = <<GreaterThan0(e)>>] :
                  e \in {SumX, Identifier("x")}}
        \cup {[BaseSelect EXCEPT !.order_by = Clause(<<OrderByElement(CountDistinctX, "", 1),
                                                       OrderByElement(UniqExactX, "", 1)>>)],
              [BaseSelect EXCEPT !.limit_by = Clause(<<SumX>>), !.limit_by_length = TRUE],
              [BaseSelect EXCEPT !.having = <<HavingCount>>],
              [BaseSelect EXCEPT !.array_join = Clause(<<WithAlias(SumX, "s")>>)],
              [BaseSelect EXCEPT !.order_by = Clause(<<OrderByElement(SumX, "", 1),
                                                       OrderByElement(SumX, "", -1)>>),
                                 !.limit_by = Clause(<<SumX>>), !.limit_by_length = TRUE]}

\* the calls every specification contains: analyze on expression trees, the
\* two entry points called on the wrong kind of tree, and analyzeSelect on
\* queries with aggregate functions
EntryCalls ==
    \/ \E rn \in {{}, {"x"}, {"x", "_part"}, {"q"}} :
          Call(<<>>, [BaseOpts EXCEPT !.entry = "analyze",
                                      !.other_required_names = [n \in rn |-> 1]])
    \/ Call(<<BaseSelect>>, [BaseOpts EXCEPT !.entry = "analyze"])
    \/ Call(<<>>, BaseOpts)
    \/ \E expression \in {<<SumX>>, <<CountDistinctX>>, <<GreaterThan0(Identifier("x"))>>} :
          Call(<<>>, [BaseOpts EXCEPT !.entry = "analyze",
                                      !.expression = expression,
                                      !.other_required_names = [n \in {"x"} |-> 1]])
    \/ \E select_query \in AggregateSelects, count_distinct \in {"uniqExact", "uniq"} :
          Call(<<select_query>>,
               [BaseOpts EXCEPT !.count_distinct_implementation = count_distinct])

InitBase == EntryCalls \/ Call(<<BaseSelect>>, BaseOpts)

SpecBase == InitBase /\ [][Next]_vars

-----------------------------------------------------------------------------
(* Calls that exercise the SELECT-list passes.                             *)

MaxSelect == 3
MaxRequired == 2
MaxRenamed == 4

\* plus(arrayJoin(arr), 1) AS y
PlusArrayJoin ==
    WithAlias(Function("plus", "plus(arrayJoin(arr), 1)",
                  <<Function("arrayJoin", "arrayJoin(arr)", <<Identifier("arr")>>),
                    Literal("1")>>), "y")

\* in(y, (SELECT arrayJoin(arr))): the only arrayJoin call sits in the subquery
InSubquery ==
    Function("in", "in(y, _subquery1)",
        <<Identifier("y"),
          Node("SelectQuery", "", "_subquery1", "",
               <<Function("arrayJoin", "arrayJoin(arr)", <<Identifier("arr")>>)>>)>>)

PrunedElements ==
    {Identifier("x"), WithAlias(Literal("1"), "x"), PlusArrayJoin, InSubquery}

RenamedElements ==
    {Identifier("x"), WithAlias(Literal("1"), "x"), Identifier("x_1"), Identifier("y")}

ExpandedElements ==
    {Identifier("x"), Node("Asterisk", "*", "*", "", <<>>),
     Node("ColumnsMatcher", "^x", "COLUMNS('^x')", "", <<>>),
     Node("ColumnsMatcher", "^z", "COLUMNS('^z')", "", <<>>)}

\* table t(x UInt64, y String, arr String)
SelectListStorage ==
    [BaseStorage EXCEPT
        !.columns = @ \o <<Column("arr", TypeString)>>,
        !.physical = @ \o <<Column("arr", TypeString)>>]

\* the pruner's cases: the caller asks for some of the result columns
PruneCalls ==
    \E select \in SeqUpTo(PrunedElements, MaxSelect) \ {<<>>},
       distinct \in BOOLEAN, remove_duplicates \in BOOLEAN,
       required_result_columns \in SeqUpTo({"x", "y"}, MaxRequired) :
        Call(<<[BaseSelect EXCEPT !.select = select, !.distinct = distinct]>>,
             [BaseOpts EXCEPT !.storage = SelectListStorage,
                              !.remove_duplicates = remove_duplicates,
                              !.required_result_columns = required_result_columns])

\* the subquery of a GLOBAL IN / GLOBAL JOIN: duplicates are renamed
RenameCalls ==
    \E select \in SeqUpTo(RenamedElements, MaxRenamed) \ {<<>>} :
        Call(<<[BaseSelect EXCEPT !.select = select]>>,
             [BaseOpts EXCEPT !.remove_duplicates = TRUE,
                              !.source_columns = <<Column("x_1", TypeUInt8)>>])

\* asterisks and COLUMNS matchers, over a table and over no columns at all
ExpandCalls ==
    \E select \in SeqUpTo(ExpandedElements, 2) \ {<<>>},
       storage \in {BaseStorage, NoStorage}, if_chain \in BOOLEAN :
        Call(<<[BaseSelect EXCEPT !.select = select]>>,
             [BaseOpts EXCEPT !.storage = storage,
                              !.optimize_if_chain_to_miltiif = if_chain])

InitSelectList == EntryCalls \/ PruneCalls \/ RenameCalls \/ ExpandCalls

SpecSelectList == InitSelectList /\ [][Next]_vars

-----------------------------------------------------------------------------
(* Properties of the SELECT-list passes and of the order of the passes.    *)

NameAt(elements, i) == getAliasOrColumnName(elements[i])

IsPrefix(s, t) == Len(s) <= Len(t) /\ s = SubSeq(t, 1, Len(s))

\* the passes that run only under a setting or an option
OptionalPasses == {"renameDuplicatedColumns", "replaceJoinedTable", "OptimizeIfChainsVisitor"}

\* the passes of a successful analyzeSelect, in the order of lines 963-1012
SelectPasses ==
    <<"TranslateQualifiedNamesVisitor", "LogicalExpressionsOptimizer",
      "CustomizeFunctionsVisitor", "QueryAliasesVisitor",
      "MarkTableIdentifiersVisitor", "QueryNormalizer",
      "removeUnneededColumnsFromSelectClause", "ExecuteScalarSubqueriesVisitor",
      "OptimizeIfWithConstantConditionVisitor", "PredicateExpressionsOptimizer",
      "optimizeGroupBy", "optimizeOrderBy", "optimizeDuplicateOrderBy",
      "optimizeDuplicateDistinct", "optimizeLimitBy", "optimizeUsing",
      "getArrayJoinedColumns", "setJoinStrictness", "collectJoinedColumns",
      "getAggregates", "collectUsedColumns">>

\* the component of the system overview a pass belongs to; "" for the steps the
\* overview's control flow does not list
ComponentOf(pass) ==
    CASE pass = "QueryAliasesVisitor" -> "C3"
      [] pass = "TranslateQualifiedNamesVisitor" -> "C4"
      [] pass = "LogicalExpressionsOptimizer" -> "logical-optimizer"
      [] pass = "QueryNormalizer" -> "C5"
      [] pass = "removeUnneededColumnsFromSelectClause" -> "projection-pruner"
      [] pass = "ExecuteScalarSubqueriesVisitor" -> "C6"
      [] pass \in {"OptimizeIfWithConstantConditionVisitor", "OptimizeIfChainsVisitor"} -> "C7"
      [] pass = "PredicateExpressionsOptimizer" -> "predicate-pushdown"
      [] pass \in {"optimizeGroupBy", "optimizeOrderBy", "optimizeDuplicateOrderBy",
                   "optimizeDuplicateDistinct", "optimizeLimitBy", "optimizeUsing"} -> "C8"
      [] pass = "getArrayJoinedColumns" -> "C9"
      [] pass \in {"setJoinStrictness", "collectJoinedColumns"} -> "C10"
      [] pass = "getAggregates" -> "C11"
      [] pass = "collectUsedColumns" -> "C12"
      [] OTHER -> ""

RECURSIVE ComponentTrace(_)
\* the components in the order in which their passes ran, a component that runs
\* several passes in a row listed once
ComponentTrace(passes) ==
    IF passes = <<>> THEN <<>>
    ELSE LET before == ComponentTrace(SubSeq(passes, 1, Len(passes) - 1))
             c == ComponentOf(passes[Len(passes)])
         IN  IF c = "" \/ (before # <<>> /\ before[Len(before)] = c)
             THEN before ELSE Append(before, c)

ClaimedComponentOrder ==
    <<"C3", "C4", "logical-optimizer", "C5", "projection-pruner", "C6", "C7",
      "predicate-pushdown", "C8", "C9", "C10", "C11", "C12">>

\* C6 as stated: in every analyzeSelect execution the components run in the
\* order C3, C4, logical optimizer, C5, projection pruner, C6, C7, predicate
\* push-down, C8, C9, C10, C11, C12, the alias map (C3) being built before the
\* qualified names are translated (C4).
C6_ClaimedOrder ==
    opts.entry = "analyzeSelect" => IsPrefix(ComponentTrace(log), ClaimedComponentOrder)

\* C6, amended: in every analyzeSelect execution the passes run at most once
\* each and in the order of SelectPasses, all of them when the analysis
\* succeeds: the qualified names are translated first, then the logical
\* optimizer runs, and only then normalize customizes countDistinct, builds the
\* alias map, marks the table identifiers and normalizes the query; the
\* pruner, scalar folding, constant-IF folding, predicate push-down, the clause
\* optimizers, the array-join resolver, the join analyzer, the aggregate
\* collector and the required-columns analysis follow in this order.
C6_PassOrder ==
    opts.entry = "analyzeSelect" =>
        LET passes == SelectSeq(log, LAMBDA pass : pass \notin OptionalPasses) IN
        /\ IsPrefix(passes, SelectPasses)
        /\ pc = "done" => passes = SelectPasses

\* a successful analysis of a query whose IF chains are rewritten as well
C6_Witness ==
    /\ opts.entry = "analyzeSelect"
    /\ pc = "done"
    /\ "OptimizeIfChainsVisitor" \in Range(log)
    /\ \E i, j \in 1..Len(log) :
          /\ i < j
          /\ log[i] = "TranslateQualifiedNamesVisitor"
          /\ log[j] = "QueryAliasesVisitor"

\* C7 as stated: once the qualified names are translated, the SELECT list is
\* not empty at any stage boundary of an analysis that has raised no error.
C7_SelectListNonEmpty ==
    (IsSelect /\ "TranslateQualifiedNamesVisitor" \in Range(log) /\ pc # "failed")
        => query[1].select # <<>>

\* the positions of elements that removeUnneededColumnsFromSelectClause has to keep
MustKeep(select_query, required_result_columns, remove_dups) ==
    LET elements == select_query.select
        listed(name) == Cardinality({k \in 1..Len(required_result_columns) :
                                        required_result_columns[k] = name})
        wanted(name) == IF remove_dups /\ listed(name) > 0 THEN 1 ELSE listed(name)
        rank(i) == Cardinality({j \in 1..i : NameAt(elements, j) = NameAt(elements, i)})
    IN  {i \in 1..Len(elements) :
            \/ rank(i) <= wanted(NameAt(elements, i))
            \/ hasArrayJoin(elements[i])
            \/ select_query.distinct}

PrunedAsClaimed(select_query, new_elements, required_result_columns, remove_dups) ==
    LET elements == select_query.select IN
    /\ (required_result_columns = <<>> /\ ~remove_dups) => new_elements = elements
    /\ \E kept \in SUBSET (1..Len(elements)) :
          /\ MustKeep(select_query, required_result_columns, remove_dups) \subseteq kept
          /\ new_elements = SelectSeqIdx(elements, [i \in 1..Len(elements) |-> i \in kept], 1)

\* C8: removeUnneededColumnsFromSelectClause leaves a subsequence of the SELECT
\* list that holds, for a name listed k times in required_result_columns, the
\* first k elements of that name (the first one with remove_dups), every
\* element with an arrayJoin call, and every element of a DISTINCT query; with
\* no required_result_columns and no remove_dups the list is unchanged.
C8_PrunerKeeps ==
    [][pc = "removeUnneededColumnsFromSelectClause" =>
          PrunedAsClaimed(query[1], query'[1].select,
                          opts.required_result_columns, opts.remove_duplicates)]_vars

\* x asked for once: of two elements named x the first one stays, and the
\* arrayJoin element stays although its name is not asked for
C8_Witness ==
    /\ pc = "executeScalarSubqueries"
    /\ opts.required_result_columns = <<"x">>
    /\ ~opts.remove_duplicates
    /\ ~query[1].distinct
    /\ Len(opts.query[1].select) = 3
    /\ Cardinality({i \in 1..3 : NameAt(opts.query[1].select, i) = "x"}) = 2
    /\ Len(query[1].select) = 2
    /\ query[1].select[1] = opts.query[1].select[1]
    /\ hasArrayJoin(query[1].select[2])
    /\ NameAt(query[1].select, 2) = "y"

RenamedAsClaimed(elements, new_elements) ==
    LET n == Len(elements)
        originals == {NameAt(elements, j) : j \in 1..n}
    IN  /\ Len(new_elements) = n
        /\ \A i \in 1..n : [new_elements[i] EXCEPT !.alias = elements[i].alias] = elements[i]
        /\ \A i, j \in 1..n : i # j => NameAt(new_elements, i) # NameAt(new_elements, j)
        /\ \A i \in 1..n :
              LET name == NameAt(elements, i)
                  taken == originals \cup {NameAt(new_elements, j) : j \in 1..(i - 1)}
              IN  IF \A j \in 1..(i - 1) : NameAt(elements, j) # name
                  THEN new_elements[i] = elements[i]
                  ELSE \E k \in 1..(2 * n) :
                          /\ NameAt(new_elements, i) = Suffixed(name, k)
                          /\ Suffixed(name, k) \notin taken
                          /\ \A m \in 1..(k - 1) : Suffixed(name, m) \in taken

\* C9: renameDuplicatedColumns keeps the number and the order of the SELECT
\* elements and changes aliases only; afterwards the names are pairwise
\* distinct, the first element of every original name is untouched, and a
\* later duplicate of name has the alias name_i with the smallest i >= 1 for
\* which name_i is no original name and no name assigned before.
C9_RenamedDistinct ==
    [][pc = "renameDuplicatedColumns" /\ opts.remove_duplicates =>
          RenamedAsClaimed(query[1].select, query'[1].select)]_vars

\* a duplicate of x is renamed to x_2 because x_1 is a name of the list
C9_Witness ==
    /\ pc = "replaceJoinedTable"
    /\ "renameDuplicatedColumns" \in Range(log)
    /\ \E i, j \in 1..Len(query[1].select) :
          /\ query[1].select[i].alias = "x_2"
          /\ NameAt(opts.query[1].select, i) = "x"
          /\ NameAt(opts.query[1].select, j) = "x_1"

-----------------------------------------------------------------------------
(* Calls on trees of subqueries, for the passes that walk the tree.        *)

OrderByX == Clause(<<OrderByElement(Identifier("x"), "", 1)>>)

\* SELECT x FROM t ...: the SELECT queries the trees are built from
PlainSelect == BaseSelect
OrderedSelect == [BaseSelect EXCEPT !.order_by = OrderByX]
LimitedSelect == [BaseSelect EXCEPT !.order_by = OrderByX, !.limit_length = TRUE]
GroupedSelect == [BaseSelect EXCEPT !.group_by = Clause(<<Identifier("x")>>)]
StatefulSelect ==
    [BaseSelect EXCEPT
        !.select = <<Function("runningDifference", "runningDifference(x)", <<Identifier("x")>>)>>,
        !.order_by = OrderByX]
SetSelect == [BaseSelect EXCEPT !.order_by = OrderByX, !.set = TRUE]
HavingSelect == [BaseSelect EXCEPT !.having = <<HavingCount>>]
NestedStatefulSelect ==
    [BaseSelect EXCEPT
        !.select = <<Function("plus", "plus(runningDifference(x), 1)",
                        <<Function("runningDifference", "runningDifference(x)",
                              <<Identifier("x")>>),
                          Literal("1")>>)>>,
        !.group_by = Clause(<<Identifier("x")>>)]

SubqueryProfiles ==
    {PlainSelect, OrderedSelect, LimitedSelect, GroupedSelect, StatefulSelect, SetSelect}

RootProfiles == SubqueryProfiles \cup {HavingSelect, NestedStatefulSelect}

\* where the subqueries hang: the place <<parent, slot>> of the SELECT 2, 3, ...
TreeShapes ==
    {<<>>,
     <<<<1, "from">>>>, <<<<1, "join">>>>, <<<<1, "where">>>>,
     <<<<1, "from">>, <<2, "from">>>>,
     <<<<1, "from">>, <<1, "join">>>>,
     <<<<1, "from">>, <<1, "where">>>>,
     <<<<1, "from">>, <<2, "where">>>>,
     <<<<1, "where">>, <<2, "from">>>>,
     <<<<1, "from">>, <<2, "from">>, <<3, "from">>>>}

\* the tree of SELECT queries with the root, the subqueries and the places given;
\* a subquery in FROM is named after its own text, so no two have the same name
Tree(root, subqueries, shape) ==
    LET nodes == <<root>> \o [i \in 1..Len(shape) |->
                                [subqueries[i] EXCEPT !.parent = shape[i][1],
                                                      !.slot = shape[i][2]]]
    IN  [n \in 1..Len(nodes) |->
            IF ChildrenIn(nodes, n, "from") # {}
            THEN [nodes[n] EXCEPT !.table =
                     [kind |-> "subquery",
                      name |-> "_subquery" \o ToString(CHOOSE c \in ChildrenIn(nodes, n, "from") : TRUE)]]
            ELSE nodes[n]]

QueryTrees ==
    {Tree(root, subqueries, shape) :
        <<root, subqueries, shape>> \in
            {t \in RootProfiles \X SeqUpTo(SubqueryProfiles, 3) \X TreeShapes :
                Len(t[2]) = Len(t[3])}}

\* an ordered query over a subquery with every combination of the LIMIT parts
LimitTrees ==
    {Tree(OrderedSelect,
          <<[OrderedSelect EXCEPT
                !.limit_by = IF f[1] THEN Clause(<<Identifier("x")>>) ELSE NoClause,
                !.limit_by_offset = f[2], !.limit_by_length = f[3],
                !.limit_length = f[4], !.limit_offset = f[5]]>>,
          <<<<1, "from">>>>) :
        f \in [1..5 -> BOOLEAN]}

TreeCalls == \E q \in QueryTrees \cup LimitTrees : Call(q, BaseOpts)

InitTree == EntryCalls \/ TreeCalls

SpecTree == InitTree /\ [][Next]_vars

\* C1 as stated: whenever a SELECT without a SET child and without a stateful
\* selected function reads FROM a subquery that has ORDER BY and no LIMIT
\* part, optimizeDuplicateOrderBy drops the ORDER BY of the subquery and
\* leaves the analysed query unchanged, whether or not the outer SELECT has an
\* ORDER BY or a GROUP BY of its own.
C1_DroppedUnderEveryOuter ==
    [][pc = "optimizeDuplicateOrderBy" =>
          \A n \in 1..Len(query) : \A c \in ChildrenIn(query, n, "from") :
              (/\ HasOrderByWithoutLimit(query[c])
               /\ ~query[n].set
               /\ ~HasStatefulFunction(query[n]))
                  => /\ ~query'[c].order_by.present
                     /\ query'[1] = query[1]]_vars

\* C1, amended: when the outer SELECT has an ORDER BY or a GROUP BY at the
\* time of the pass (a GROUP BY that optimizeGroupBy has installed for a
\* HAVING counts), no SET child and no stateful selected function, and its
\* FROM holds a subquery with ORDER BY and no LIMIT part, then
\* optimizeDuplicateOrderBy drops the ORDER BY of the subquery; the outer
\* SELECT keeps all its other parts and the analysed query is unchanged.
C1_DroppedUnderOrderedOuter ==
    [][pc = "optimizeDuplicateOrderBy" =>
          \A n \in 1..Len(query) : \A c \in ChildrenIn(query, n, "from") :
              (/\ HasOrderByWithoutLimit(query[c])
               /\ query[n].order_by.present \/ query[n].group_by.present
               /\ ~query[n].set
               /\ ~HasStatefulFunction(query[n]))
                  => /\ ~query'[c].order_by.present
                     /\ [query'[c] EXCEPT !.order_by = query[c].order_by] = query[c]
                     /\ [query'[n] EXCEPT !.order_by = query[n].order_by] = query[n]
                     /\ query'[1] = query[1]]_vars

\* SELECT x FROM (SELECT x FROM t ORDER BY x) GROUP BY x has lost the inner ORDER BY
C1_Witness ==
    /\ pc = "optimizeDuplicateDistinct"
    /\ Len(query) = 2
    /\ opts.query[1] = [GroupedSelect EXCEPT !.table = query[1].table]
    /\ query[2].slot = "from"
    /\ opts.query[2].order_by.present
    /\ ~query[2].order_by.present
    /\ query[1] = opts.query[1]

-----------------------------------------------------------------------------
(* Calls that exercise the required-columns analysis.                      *)

\* SELECT count() FROM t
CountSelect == [BaseSelect EXCEPT !.select = <<Function("count", "count()", <<>>)>>]

\* table t(a UInt64, b UInt8, c String) with the virtual columns _v and _w
UsedStorage ==
    [present |-> TRUE,
     columns |-> <<Column("a", TypeUInt64), Column("b", TypeUInt8), Column("c", TypeString)>>,
     physical |-> <<Column("a", TypeUInt64), Column("b", TypeUInt8), Column("c", TypeString)>>,
     virtuals |-> <<Column("_v", TypeString), Column("_w", TypeUInt64)>>,
     column_sizes |-> [n \in {} |-> [data_compressed |-> 0, data_uncompressed |-> 0]]]

\* the source-column list handed in and the storage
SourceVariants ==
    {<<<<>>, UsedStorage>>,
     <<<<Column("c", TypeString), Column("a", TypeUInt64)>>, NoStorage>>,
     <<<<Column("e", TypeUInt8)>>, UsedStorage>>,
     <<<<>>, NoStorage>>}

ReferencedNames == {"a", "b", "c", "_v", "_w", "q"}

\* every set of referenced names, on a SELECT and on an expression tree
RequiredCalls ==
    \E q \in {<<CountSelect>>, <<>>}, v \in SourceVariants, names \in SUBSET ReferencedNames :
        Call(q, [BaseOpts EXCEPT
                    !.entry = IF q = <<>> THEN "analyze" ELSE "analyzeSelect",
                    !.source_columns = v[1], !.storage = v[2],
                    !.other_required_names = [n \in names |-> 1]])

ColumnSizes ==
    {[data_compressed |-> 50, data_uncompressed |-> 10],
     [data_compressed |-> 50, data_uncompressed |-> 20],
     [data_compressed |-> 100, data_uncompressed |-> 10]}

ColumnTypes == {TypeUInt8, TypeUInt64, TypeString}

\* SELECT count() FROM t, the storage reporting sizes for some of a, b and c
CheapestCalls ==
    \E sized \in SUBSET {"a", "b", "c"}, tb \in ColumnTypes, tc \in ColumnTypes :
      \E sizes \in [sized -> ColumnSizes] :
        LET columns == <<Column("a", TypeUInt64), Column("b", tb), Column("c", tc)>> IN
        Call(<<CountSelect>>,
             [BaseOpts EXCEPT
                 !.storage = [UsedStorage EXCEPT !.columns = columns, !.physical = columns,
                                                 !.column_sizes = sizes]])

\* SELECT ... FROM t JOIN b: the joined table has the columns listed, the query
\* references the names given, j once or twice, and ON names right keys or
\* USING names j; the joined table has the name prefix "b." or, as a subquery
\* without alias, none; an ASOF join has one equality on j and an inequality on k
JoinedCalls ==
    \E joined \in {<<Column("j", TypeUInt8)>>,
                   <<Column("j", TypeUInt8), Column("a", TypeUInt8)>>,
                   <<Column("k", TypeUInt8), Column("j", TypeUInt8)>>},
       names \in SUBSET {"a", "j", "k"}, uses \in 1..2,
       key_names_right \in {<<>>, <<"j">>, <<"j", "j">>},
       kind \in {"Inner", "Cross", "Using"},
       right_table_prefix \in {"b.", ""},
       asof_right_key \in {"", "k"} :
        /\ kind = "Using" => key_names_right = <<>>
        /\ asof_right_key # "" => (kind = "Inner" /\ Len(key_names_right) = 1)
        /\ Call(<<[CountSelect EXCEPT
                      !.join = [TableJoin(IF kind = "Cross" THEN "Cross" ELSE "Inner",
                                          IF asof_right_key # "" THEN "Asof" ELSE "All")
                                   EXCEPT !.on_expression = (kind = "Inner"),
                                          !.using = IF kind = "Using"
                                                    THEN Clause(<<Identifier("j")>>)
                                                    ELSE NoClause]]>>,
                [BaseOpts EXCEPT
                    !.storage = UsedStorage,
                    !.tables_with_columns = 2,
                    !.right_table_prefix = right_table_prefix,
                    !.columns_from_joined_table = joined,
                    !.on_keys = [has_some |-> TRUE, key_names_right |-> key_names_right,
                                 asof_right_key |-> asof_right_key],
                    !.other_required_names =
                        [n \in names |-> IF n = "j" THEN uses ELSE 1]])

InitUsedColumns == EntryCalls \/ RequiredCalls \/ CheapestCalls \/ JoinedCalls

SpecUsedColumns == InitUsedColumns /\ [][Next]_vars

-----------------------------------------------------------------------------
(* Properties of the required-columns analysis.                            *)

\* the columns of list whose names are in names, in the order of list
Restricted(list, names) == SelectSeq(list, LAMBDA column : column.name \in names)

\* C2 as stated: after a successful collectUsedColumns the result's
\* required_source_columns list equals its source_columns list.
C2_ListsEqual ==
    pc = "done" => result.required_source_columns = result.source_columns

ListsSwapped(res, new_res, required) ==
    /\ new_res.source_columns = res.source_columns
    /\ Restricted(new_res.required_source_columns, NameSet(res.source_columns))
          = Restricted(res.source_columns, required)
    /\ NameSet(new_res.required_source_columns) = required
    /\ (new_res.required_source_columns = new_res.source_columns)
          <=> (required = NameSet(res.source_columns))

\* C2, amended: after a successful collectUsedColumns, source_columns is the
\* input source-column list again and required_source_columns is the pruned
\* list, whose names are the final required set and whose source columns are
\* the required input columns in their order; the two lists are equal exactly
\* when the final required set is the set of the input source-column names.
C2_PrunedAndRestored ==
    [][pc = "collectUsedColumns" /\ pc' = "done" =>
          ListsSwapped(result, result', locals'.required)]_vars

\* a, b and c are the source columns and only b is required
C2_Witness ==
    /\ pc = "done"
    /\ Names(result.source_columns) = <<"a", "b", "c">>
    /\ Names(result.required_source_columns) = <<"b">>
    /\ ~result.maybe_optimize_trivial_count

\* a name of the required set that is no source column and no column of the storage
IsUnknown(name, source_columns, storage) ==
    /\ name \notin NameSet(source_columns)
    /\ ~(storage.present /\ hasColumn(storage, name))

RequiredAsClaimed(source_columns, required_source_columns, required, storage) ==
    LET kept == Restricted(source_columns, required)
        n == Len(required_source_columns)
    IN  /\ NameSet(required_source_columns) = required
        /\ \A i, j \in 1..n :
              i # j => required_source_columns[i].name # required_source_columns[j].name
        /\ Len(kept) <= n
        /\ SubSeq(required_source_columns, 1, Len(kept)) = kept
        /\ \A i \in (Len(kept) + 1)..n :
              /\ required_source_columns[i].name \notin NameSet(source_columns)
              /\ storage.present
              /\ hasColumn(storage, required_source_columns[i].name)
              /\ required_source_columns[i] = getColumn(storage, required_source_columns[i].name)

\* C3: collectUsedColumns fails with UNKNOWN_IDENTIFIER exactly when a name of
\* the final required set is neither an input source column nor a column of
\* the storage; when it succeeds the names of required_source_columns are the
\* final required set, the required source columns come first in their source
\* order and the columns found only in the storage follow them.
C3_UnknownOrRequired ==
    [][pc = "collectUsedColumns" =>
          /\ (err' = "UNKNOWN_IDENTIFIER") <=>
                (\E name \in locals'.required :
                    IsUnknown(name, result.source_columns, opts.storage))
          /\ pc' = "done" =>
                RequiredAsClaimed(result.source_columns, result'.required_source_columns,
                                  locals'.required, opts.storage)]_vars

\* b is kept and the virtual columns _w and _v are appended, _w first
C3_Witness ==
    /\ pc = "done"
    /\ Names(result.source_columns) = <<"a", "b", "c">>
    /\ Names(result.required_source_columns) = <<"b", "_w", "_v">>

\* <compressed_size, type_size, uncompressed_size> of a source column with sizes
SizeTuple(column, storage) ==
    <<storage.column_sizes[column.name].data_compressed,
      TypeSize(column.type),
      storage.column_sizes[column.name].data_uncompressed>>

LexLess(s, t) ==
    \/ s[1] < t[1]
    \/ s[1] = t[1] /\ s[2] < t[2]
    \/ s[1] = t[1] /\ s[2] = t[2] /\ s[3] < t[3]

\* the position in source_columns of the column the claim says is chosen
ClaimedCheapest(source_columns, storage) ==
    LET sized == {i \in 1..Len(source_columns) :
                     storage.present /\ source_columns[i].name \in DOMAIN storage.column_sizes}
    IN  IF sized # {}
        THEN CHOOSE m \in sized :
                /\ \A i \in sized : ~LexLess(SizeTuple(source_columns[i], storage),
                                             SizeTuple(source_columns[m], storage))
                /\ \A i \in sized : i < m =>
                       LexLess(SizeTuple(source_columns[m], storage),
                               SizeTuple(source_columns[i], storage))
        ELSE CHOOSE m \in 1..Len(source_columns) :
                /\ \A i \in 1..Len(source_columns) :
                       TypeSize(source_columns[m].type) <= TypeSize(source_columns[i].type)
                /\ \A i \in 1..(m - 1) :
                       TypeSize(source_columns[m].type) < TypeSize(source_columns[i].type)

\* C4: on a SELECT whose required set is empty, collectUsedColumns requires
\* exactly one column: of the source columns with sizes in the storage the
\* first one with the smallest (compressed_size, type_size, uncompressed_size),
\* and without any sizes the first column of the smallest type; on an
\* expression tree with an empty required set it requires no column.
C4_CheapestColumn ==
    [][(pc = "collectUsedColumns" /\ RequiredAfterArrayJoin(result, ColumnsContext) = {}) =>
          IF IsSelect
          THEN result.source_columns # <<>> =>
                  /\ pc' = "done"
                  /\ result'.required_source_columns =
                        <<result.source_columns[ClaimedCheapest(result.source_columns,
                                                                opts.storage)]>>
          ELSE /\ pc' = "done"
               /\ result'.required_source_columns = <<>>]_vars

\* a(100 compressed), b(50), c(50, a smaller type than b): c is read
C4_Witness ==
    /\ pc = "done"
    /\ IsSelect
    /\ DOMAIN opts.storage.column_sizes = {"a", "b", "c"}
    /\ opts.storage.column_sizes["a"].data_compressed = 100
    /\ opts.storage.column_sizes["b"] = opts.storage.column_sizes["c"]
    /\ opts.storage.column_sizes["b"].data_compressed = 50
    /\ TypeSize(opts.storage.columns[3].type) < TypeSize(opts.storage.columns[2].type)
    /\ Names(result.required_source_columns) = <<"c">>
    /\ result.maybe_optimize_trivial_count

\* C5 as stated: a SELECT that references a column, of the left or of the
\* joined table, never ends with maybe_optimize_trivial_count = true.
C5_TrivialCountWithoutColumns ==
    (pc = "done" /\ IsSelect /\ result.maybe_optimize_trivial_count)
        => requiredColumns(ColumnsContext) = {}

-----------------------------------------------------------------------------
(* Calls that exercise the join analyzer.                                  *)

JoinKinds == {"Inner", "Left", "Right", "Full", "Cross"}

JoinStrictnesses == {"Unspecified", "All", "Any", "Asof", "Semi", "Anti", "RightAny"}

\* what the visitor finds in ON a.k = b.k, in ON a.k = b.k AND a.ts >= b.ts,
\* and in an ON expression without an equality of the two tables
OnKeys ==
    {[has_some |-> TRUE, key_names_right |-> <<"k">>, asof_right_key |-> ""],
     [has_some |-> TRUE, key_names_right |-> <<"k">>, asof_right_key |-> "ts"],
     [has_some |-> FALSE, key_names_right |-> <<>>, asof_right_key |-> ""]}

\* SELECT x FROM t <strictness> <kind> JOIN b ON ..., under every value of the
\* settings join_default_strictness and any_join_distinct_right_table_keys
StrictnessCalls ==
    \E kind \in JoinKinds, strictness \in JoinStrictnesses,
       join_default_strictness \in {"", "ALL", "ANY"}, old_any \in BOOLEAN,
       on_keys \in OnKeys, tables_with_columns \in 1..2 :
        Call(<<[BaseSelect EXCEPT
                   !.join = [TableJoin(kind, strictness) EXCEPT
                                !.on_expression = (kind # "Cross")]]>>,
             [BaseOpts EXCEPT
                 !.join_default_strictness = join_default_strictness,
                 !.any_join_distinct_right_table_keys = old_any,
                 !.tables_with_columns = tables_with_columns,
                 !.on_keys = on_keys,
                 !.columns_from_joined_table = <<Column("j", TypeUInt8)>>])

InitJoin == EntryCalls \/ StrictnessCalls

SpecJoin == InitJoin /\ [][Next]_vars

StrictnessAsClaimed(table_join, new_table_join, join_default_strictness, old_any, failure) ==
    LET defaulted == table_join.kind # "Cross" /\ table_join.strictness = "Unspecified" IN
    /\ (failure = "EXPECTED_ALL_OR_ANY") <=> (defaulted /\ join_default_strictness = "")
    /\ failure = "EXPECTED_ALL_OR_ANY" => new_table_join = table_join
    /\ failure = "" =>
          /\ (defaulted /\ join_default_strictness = "ALL") => new_table_join.strictness = "All"
          /\ (defaulted /\ join_default_strictness = "ANY") =>
                IF old_any THEN new_table_join.strictness \in {"Semi", "RightAny"}
                ELSE new_table_join.strictness = "Any"
          /\ ~defaulted =>
                \/ new_table_join.strictness = table_join.strictness
                \/ /\ old_any
                   /\ table_join.strictness = "Any"
                   /\ new_table_join.strictness \in {"Semi", "RightAny"}
          /\ table_join.kind # "Cross" => new_table_join.strictness # "Unspecified"

\* C10: on a JOIN that is not CROSS and has no strictness, setJoinStrictness
\* sets the strictness from join_default_strictness, ALL giving All and ANY
\* giving Any (which the old-ANY flag then rewrites), and fails with
\* EXPECTED_ALL_OR_ANY exactly when the setting is empty; the strictness of a
\* CROSS JOIN and a strictness that was written are never replaced by the
\* default; after a successful call on a JOIN that is not CROSS the
\* strictness is not Unspecified.
C10_DefaultStrictness ==
    [][(pc = "setJoinStrictness" /\ query[1].join.present) =>
          /\ StrictnessAsClaimed(query[1].join, query'[1].join,
                                 opts.join_default_strictness,
                                 opts.any_join_distinct_right_table_keys,
                                 IF pc' = "failed" THEN err' ELSE "")
          /\ pc' # "failed" =>
                result'.analyzed_join.table_join.strictness = query'[1].join.strictness]_vars

\* JOIN without a strictness under join_default_strictness = ALL
C10_Witness ==
    /\ pc = "collectJoinedColumns"
    /\ opts.query[1].join.present
    /\ opts.query[1].join.kind = "Inner"
    /\ opts.query[1].join.strictness = "Unspecified"
    /\ opts.join_default_strictness = "ALL"
    /\ query[1].join.strictness = "All"
    /\ result.analyzed_join.table_join.strictness = "All"

-----------------------------------------------------------------------------
(* The ANY rules of the join analyzer.                                     *)

\* the JOIN after the default strictness of the setting has been filled in
WithDefault(table_join, join_default_strictness) ==
    IF table_join.strictness = "Unspecified" /\ table_join.kind # "Cross"
    THEN [table_join EXCEPT !.strictness =
             CASE join_default_strictness = "ANY" -> "Any"
               [] join_default_strictness = "ALL" -> "All"
               [] OTHER -> "Unspecified"]
    ELSE table_join

AnyRulesAsClaimed(table_join, new_table_join, join_default_strictness, old_any, failure) ==
    LET written == WithDefault(table_join, join_default_strictness)
        any == written.strictness = "Any"
    IN  /\ old_any =>
              /\ failure \in {"", "EXPECTED_ALL_OR_ANY"}
              /\ new_table_join.strictness # "Any"
              /\ failure = "" =>
                    new_table_join =
                        IF any /\ written.kind = "Inner"
                        THEN [written EXCEPT !.strictness = "Semi", !.kind = "Left"]
                        ELSE IF any
                        THEN [written EXCEPT !.strictness = "RightAny"]
                        ELSE written
        /\ ~old_any =>
              /\ (failure = "NOT_IMPLEMENTED") <=> (any /\ written.kind = "Full")
              /\ failure = "" => new_table_join = written

\* C11: under the old-ANY flag a successful setJoinStrictness turns ANY INNER
\* (written or defaulted) into SEMI LEFT and every other ANY join into
\* RightAny, leaves the other joins as written, and never leaves strictness
\* Any; without the flag it fails with NOT_IMPLEMENTED exactly on ANY FULL
\* (written or defaulted) and every other join keeps its kind and the
\* strictness it has after the default is filled in; out_table_join is
\* assigned the join on success and is untouched when the call fails.
C11_AnyJoinRules ==
    [][(pc = "setJoinStrictness" /\ query[1].join.present) =>
          /\ AnyRulesAsClaimed(query[1].join, query'[1].join,
                               opts.join_default_strictness,
                               opts.any_join_distinct_right_table_keys,
                               IF pc' = "failed" THEN err' ELSE "")
          /\ IF pc' = "failed"
             THEN result' = result
             ELSE result'.analyzed_join.table_join =
                      [kind |-> query'[1].join.kind,
                       strictness |-> query'[1].join.strictness]]_vars

\* ANY INNER JOIN under the old-ANY flag has become SEMI LEFT JOIN
C11_Witness ==
    /\ pc = "collectJoinedColumns"
    /\ opts.any_join_distinct_right_table_keys
    /\ opts.query[1].join.present
    /\ opts.query[1].join.kind = "Inner"
    /\ opts.query[1].join.strictness = "Any"
    /\ query[1].join.kind = "Left"
    /\ query[1].join.strictness = "Semi"
    /\ result.analyzed_join.table_join = [kind |-> "Left", strictness |-> "Semi"]

-----------------------------------------------------------------------------
(* Calls that exercise the GROUP BY simplification.                        *)

MaxGroupBy == 2

ToStringX == Function("toString", "toString(x)", <<Identifier("x")>>)
PlusX1 == Function("plus", "plus(x, 1)", <<Identifier("x"), Literal("1")>>)

\* dictGetString('dict', attr, x)
DictGet(attr) ==
    Function("dictGetString", "dictGetString('dict', '" \o attr \o "', x)",
             <<StringLiteral("dict"), StringLiteral(attr), Identifier("x")>>)

\* dictGet* calls whose dictionary or attribute argument cannot be read
BadDictGets ==
    {Function("dictGetString", "dictGetString(dict, 'inj', x)",
              <<Identifier("dict"), StringLiteral("inj"), Identifier("x")>>),
     Function("dictGetString", "dictGetString('dict', inj, x)",
              <<StringLiteral("dict"), Identifier("inj"), Identifier("x")>>),
     Function("dictGetUInt64", "dictGetUInt64(1, 'inj', x)",
              <<Literal("1"), StringLiteral("inj"), Identifier("x")>>),
     Function("dictGetString", "dictGetString('dict', 1, x)",
              <<StringLiteral("dict"), Literal("1"), Identifier("x")>>),
     Function("dictGetString", "dictGetString('nodict', 'inj', x)",
              <<StringLiteral("nodict"), StringLiteral("inj"), Identifier("x")>>)}

\* the keys the GROUP BY lists are built from
GroupByKeys ==
    {Identifier("x"), Literal("1"), ToStringX, PlusX1,
     Function("toString", "toString(1)", <<Literal("1")>>),
     Function("reverse", "reverse(toString(x))", <<ToStringX>>),
     Function("tuple", "tuple(x, 1, y)", <<Identifier("x"), Literal("1"), Identifier("y")>>),
     Function("tuple", "tuple(plus(x, 1), toString(x))", <<PlusX1, ToStringX>>),
     DictGet("inj"), DictGet("other"),
     Function("dictGetString", "dictGetString('dict')", <<StringLiteral("dict")>>)}
        \cup BadDictGets

\* the columns handed in besides those of the table t: some are named by numbers
NumberedColumns ==
    {<<>>, <<Column("0", TypeUInt8)>>, <<Column("0", TypeUInt8), Column("1", TypeUInt8)>>,
     <<Column("1", TypeUInt8)>>}

\* SELECT x FROM t [GROUP BY keys] [HAVING ...]
GroupByCalls ==
    \E group_by \in {NoClause} \cup {Clause(l) : l \in SeqUpTo(GroupByKeys, MaxGroupBy) \ {<<>>}},
       having \in {<<>>, <<HavingCount>>}, source_columns \in NumberedColumns :
        Call(<<[BaseSelect EXCEPT !.group_by = group_by, !.having = having]>>,
             [BaseOpts EXCEPT !.source_columns = source_columns])

InitGroupBy == EntryCalls \/ GroupByCalls

SpecGroupBy == InitGroupBy /\ [][Next]_vars

-----------------------------------------------------------------------------
(* Properties of the GROUP BY simplification.                              *)

\* the call is to a function of the fixed injective list, or to a dictGet*
\* function with at least two arguments, the first two string literals that
\* name a known dictionary and an injective attribute of it
IsInjectiveCall(ast) ==
    /\ ast.type = "Function"
    /\ \/ ast.name \in injective_function_names
       \/ /\ ast.name \in possibly_injective_function_names
          /\ Len(ast.children) >= 2
          /\ \A i \in 1..2 : /\ ast.children[i].type = "Literal"
                              /\ ast.children[i].column_name
                                     = "'" \o ast.children[i].name \o "'"
          /\ ast.children[1].name \in opts.dictionaries
          /\ <<ast.children[1].name, ast.children[2].name>> \in opts.injective_attributes

RECURSIVE Remainder(_)
\* what is left of a key when literals are dropped and injective calls are
\* replaced by their arguments, all the way down
Remainder(ast) ==
    IF ast.type = "Literal" THEN {}
    ELSE IF IsInjectiveCall(ast)
    THEN UNION {Remainder(ast.children[i]) : i \in 1..Len(ast.children)}
    ELSE {ast}

RemainderOf(list) == UNION {Remainder(list[i]) : i \in 1..Len(list)}

\* the smallest number whose decimal text is no source column
SmallestUnused(source_columns) ==
    CHOOSE n \in 0..Cardinality(source_columns) :
        /\ ToString(n) \notin source_columns
        /\ \A m \in 0..(n - 1) : ToString(m) \in source_columns

TrivialGroupByAsClaimed(select_query, new_select_query, source_columns) ==
    LET group_by == select_query.group_by
        new_group_by == new_select_query.group_by
    IN  /\ (select_query.having # <<>> /\ (~group_by.present \/ RemainderOf(group_by.list) = {}))
              => new_group_by =
                     Clause(<<Literal(ToString(SmallestUnused(source_columns)))>>)
        /\ (~group_by.present /\ select_query.having = <<>>) => ~new_group_by.present
        /\ group_by.present => (new_group_by.present /\ new_group_by.list # <<>>)

\* C12: on a query with HAVING whose GROUP BY is absent or is simplified to
\* nothing, optimizeGroupBy leaves a GROUP BY of exactly one literal n, the
\* smallest non-negative integer whose decimal text is no source-column name;
\* a query with neither GROUP BY nor HAVING gets no GROUP BY; a query that
\* had a GROUP BY never ends with an empty GROUP BY list.
C12_TrivialGroupBy ==
    [][pc = "optimizeGroupBy" =>
          TrivialGroupByAsClaimed(query[1], query'[1], result.source_columns_set)]_vars

\* HAVING with GROUP BY toString(1), the columns "0" and "1" exist: GROUP BY 2
C12_Witness ==
    /\ pc = "optimizeOrderBy"
    /\ opts.query[1].having # <<>>
    /\ opts.query[1].group_by.present
    /\ Len(opts.query[1].group_by.list) = 1
    /\ opts.query[1].group_by.list[1].name = "toString"
    /\ {"0", "1"} \subseteq result.source_columns_set
    /\ query[1].group_by = Clause(<<Literal("2")>>)

-----------------------------------------------------------------------------
(* Calls that exercise the list-dedup passes.                              *)

MaxDedup == 3

OrderByElements ==
    {OrderByElement(Identifier("x"), "", 1), OrderByElement(Identifier("x"), "", -1),
     OrderByElement(Identifier("x"), "en", 1), OrderByElement(Identifier("y"), "", 1)}

\* x, x AS a, y AS x, y
NamedElements ==
    {Identifier("x"), WithAlias(Identifier("x"), "a"),
     WithAlias(Identifier("y"), "x"), Identifier("y")}

\* SELECT x FROM t with an ORDER BY, a LIMIT 1 BY or a JOIN b USING list
DedupCalls ==
    \/ \E l \in SeqUpTo(OrderByElements, MaxDedup) \ {<<>>} :
          Call(<<[BaseSelect EXCEPT !.order_by = Clause(l)]>>, BaseOpts)
    \/ \E l \in SeqUpTo(NamedElements, MaxDedup) \ {<<>>} :
          Call(<<[BaseSelect EXCEPT !.limit_by = Clause(l), !.limit_by_length = TRUE]>>,
               BaseOpts)
    \/ \E l \in SeqUpTo(NamedElements, MaxDedup) \ {<<>>} :
          Call(<<[BaseSelect EXCEPT
                     !.join = [TableJoin("Inner", "All") EXCEPT
                                  !.using = Clause(l), !.on_expression = FALSE]]>>,
               [BaseOpts EXCEPT !.tables_with_columns = 2,
                                !.columns_from_joined_table =
                                    <<Column("x", TypeUInt64), Column("y", TypeString)>>])

InitDedup == EntryCalls \/ DedupCalls

SpecDedup == InitDedup /\ [][Next]_vars

\* the elements of list whose key occurs at no earlier position, in their order
FirstOccurrences(list, keys) ==
    LET first == {i \in 1..Len(list) : \A j \in 1..(i - 1) : keys[j] # keys[i]}
        kept == Ascending(first)
    IN  [k \in 1..Len(kept) |-> list[kept[k]]]

\* C13: optimizeOrderBy, optimizeLimitBy and optimizeUsing each leave the
\* subsequence of the first occurrences under the key of the pass, in the
\* original order: (expression column name, collation name or "") for ORDER BY,
\* the column name for LIMIT BY, the alias or else the column name for USING;
\* nothing else of the query changes.
C13_DedupStable ==
    [][/\ pc = "optimizeOrderBy" =>
            IF query[1].order_by.present
            THEN query' = [query EXCEPT ![1].order_by.list =
                              FirstOccurrences(@, [i \in 1..Len(@) |->
                                                      <<@[i].children[1].column_name,
                                                        @[i].collation>>])]
            ELSE query' = query
       /\ pc = "optimizeLimitBy" =>
            IF query[1].limit_by.present
            THEN query' = [query EXCEPT ![1].limit_by.list =
                              FirstOccurrences(@, [i \in 1..Len(@) |-> @[i].column_name])]
            ELSE query' = query
       /\ pc = "optimizeUsing" =>
            IF query[1].join.present /\ query[1].join.using.present
            THEN query' = [query EXCEPT ![1].join.using.list =
                              FirstOccurrences(@, [i \in 1..Len(@) |->
                                                      IF @[i].alias # "" THEN @[i].alias
                                                      ELSE @[i].column_name])]
            ELSE query' = query]_vars

\* ORDER BY x, x COLLATE 'en', x DESC has become ORDER BY x, x COLLATE 'en'
C13_Witness ==
    /\ pc = "optimizeDuplicateOrderBy"
    /\ opts.query[1].order_by.present
    /\ opts.query[1].order_by.list =
          <<OrderByElement(Identifier("x"), "", 1), OrderByElement(Identifier("x"), "en", 1),
            OrderByElement(Identifier("x"), "", -1)>>
    /\ query[1].order_by.list =
          <<OrderByElement(Identifier("x"), "", 1), OrderByElement(Identifier("x"), "en", 1)>>

-----------------------------------------------------------------------------
(* Calls on trees of DISTINCT subqueries.                                  *)

\* SELECT DISTINCT x / SELECT DISTINCT y / SELECT DISTINCT x with a SET child
DistinctX == [BaseSelect EXCEPT !.distinct = TRUE]
DistinctY == [BaseSelect EXCEPT !.distinct = TRUE, !.select = <<Identifier("y")>>]
DistinctSet == [BaseSelect EXCEPT !.distinct = TRUE, !.set = TRUE]

DistinctProfiles == {PlainSelect, DistinctX, DistinctY, DistinctSet}

DistinctTrees ==
    {Tree(root, subqueries, shape) :
        <<root, subqueries, shape>> \in
            {t \in DistinctProfiles \X SeqUpTo(DistinctProfiles, 3) \X TreeShapes :
                Len(t[2]) = Len(t[3])}}

DistinctCalls == \E q \in DistinctTrees : Call(q, BaseOpts)

InitDistinct == EntryCalls \/ DistinctCalls

SpecDistinct == InitDistinct /\ [][Next]_vars

\* the projection signature of a SELECT: the column names of its SELECT list
Signature(select_query) ==
    [i \in 1..Len(select_query.select) |-> select_query.select[i].column_name]

\* C15: optimizeDuplicateDistinct clears the DISTINCT of a SELECT only when
\* the SELECT reads directly FROM a subquery that is SELECT DISTINCT with the
\* same projection signature, neither of the two having a SET child; a
\* DISTINCT SELECT with a DISTINCT subquery only in WHERE, in a join branch
\* or deeper below a subquery without DISTINCT keeps its DISTINCT, and a
\* DISTINCT SELECT without subqueries keeps it; no DISTINCT is added.
C15_DistinctOnlyOverDistinctFrom ==
    [][pc = "optimizeDuplicateDistinct" =>
          \A n \in 1..Len(query) :
              /\ query'[n].distinct => query[n].distinct
              /\ (query[n].distinct /\ ~query'[n].distinct) =>
                    /\ ~query[n].set
                    /\ \E c \in ChildrenIn(query, n, "from") :
                          /\ query[c].distinct
                          /\ ~query[c].set
                          /\ Signature(query[c]) = Signature(query[n])]_vars

-----------------------------------------------------------------------------
(* Where duplicate ORDER BY removal may act.                               *)

RECURSIVE CallsStateful(_)
\* the expression is a call of a stateful function or has such a call among
\* the functions of its arguments, at any depth
CallsStateful(ast) ==
    /\ ast.type = "Function"
    /\ \/ ast.name \in opts.stateful_functions
       \/ \E i \in 1..Len(ast.children) : CallsStateful(ast.children[i])

HasLimitPart(select_query) ==
    \/ select_query.limit_by.present
    \/ select_query.limit_by_offset
    \/ select_query.limit_by_length
    \/ select_query.limit_length
    \/ select_query.limit_offset

\* C16: optimizeDuplicateOrderBy removes the ORDER BY of a SELECT only when
\* the SELECT has no LIMIT, LIMIT BY or OFFSET part and is a subquery in the
\* tables (FROM or JOIN) of a SELECT that has no SET child and no stateful
\* function in its SELECT list; the root keeps its ORDER BY, a subquery with a
\* LIMIT part keeps its ORDER BY, and the pass changes nothing but ORDER BY.
C16_OrderByRemovedOnlyWhenSafe ==
    [][pc = "optimizeDuplicateOrderBy" =>
          /\ Len(query') = Len(query)
          /\ \A c \in 1..Len(query) :
                /\ [query'[c] EXCEPT !.order_by = query[c].order_by] = query[c]
                /\ query'[c].order_by \in {query[c].order_by, NoClause}
                /\ query'[c].order_by # query[c].order_by =>
                      /\ c # 1
                      /\ ~HasLimitPart(query[c])
                      /\ query[c].slot \in {"from", "join"}
                      /\ ~query[query[c].parent].set
                      /\ \A i \in 1..Len(query[query[c].parent].select) :
                            ~CallsStateful(query[query[c].parent].select[i])]_vars

\* SELECT x FROM (SELECT x FROM (... ORDER BY x LIMIT 1) ORDER BY x) ORDER BY x:
\* the middle SELECT has lost its ORDER BY, the innermost and the root keep it
C16_Witness ==
    /\ pc = "optimizeDuplicateDistinct"
    /\ Len(query) = 3
    /\ query[2].parent = 1 /\ query[2].slot = "from"
    /\ query[3].parent = 2 /\ query[3].slot = "from"
    /\ opts.query[2].order_by.present /\ ~query[2].order_by.present
    /\ query[3].limit_length /\ query[3].order_by.present
    /\ query[1].order_by.present
    /\ query[1] = opts.query[1] /\ query[3] = opts.query[3]

RECURSIVE NodeCount(_)
RECURSIVE NodeCountOf(_)
\* the number of AST nodes of an expression / of a list of expressions
NodeCount(ast) == 1 + NodeCountOf(ast.children)
NodeCountOf(list) == IF list = <<>> THEN 0 ELSE NodeCount(Head(list)) + NodeCountOf(Tail(list))

SimplifiedAsClaimed(group_exprs, new_group_exprs, source_columns) ==
    LET remainder == RemainderOf(group_exprs) IN
    /\ \/ new_group_exprs = <<Literal(ToString(SmallestUnused(source_columns)))>>
       \/ \A i \in 1..Len(new_group_exprs) :
             /\ new_group_exprs[i].type # "Literal"
             /\ ~IsInjectiveCall(new_group_exprs[i])
    /\ remainder \subseteq Range(new_group_exprs)
    /\ remainder # {} => Range(new_group_exprs) = remainder
    /\ \A i \in 1..Len(group_exprs) :
          (group_exprs[i].type # "Literal" /\ ~IsInjectiveCall(group_exprs[i]))
              => group_exprs[i] \in Range(new_group_exprs)

\* C17: the loop of optimizeGroupBy ends after at most as many iterations as
\* the GROUP BY keys have AST nodes; the list it leaves is either the single
\* synthetic literal or has no literal and no top-level call of a function of
\* the fixed injective list or of a dictGet* function with at least two
\* arguments and an injective attribute; what is left of every key once
\* literals are dropped and injective calls are replaced by their arguments,
\* at every depth, is in the list, and so is every key that was neither a
\* literal nor an injective call.  The bound on the iterations holds also
\* when the loop ends by an exception; the rest is about the list the pass
\* returns.
C17_GroupBySimplified ==
    [][(pc = "optimizeGroupBy" /\ query[1].group_by.present) =>
          /\ GroupByIterations(query[1].group_by.list, 1)
                <= NodeCountOf(query[1].group_by.list)
          /\ query'[1].group_by.present
          /\ err' = "" =>
                SimplifiedAsClaimed(query[1].group_by.list, query'[1].group_by.list,
                                    result.source_columns_set)]_vars

\* GROUP BY tuple(plus(x, 1), toString(x)), dictGetString('dict', 'inj', x)
\* has become GROUP BY of plus(x, 1) and x
C17_Witness ==
    /\ pc = "optimizeOrderBy"
    /\ opts.query[1].group_by.present
    /\ Len(opts.query[1].group_by.list) = 2
    /\ opts.query[1].group_by.list[1].column_name = "tuple(plus(x, 1), toString(x))"
    /\ opts.query[1].group_by.list[2] = DictGet("inj")
    /\ Range(query[1].group_by.list) = {PlusX1, Identifier("x")}

-----------------------------------------------------------------------------
(* The clause optimizers run on their own output.                          *)

InitClauses == EntryCalls \/ GroupByCalls \/ TreeCalls \/ DistinctCalls

SpecClauses == InitClauses /\ [][Next]_vars

\* C14: optimizeGroupBy, optimizeDuplicateOrderBy and optimizeDuplicateDistinct
\* are idempotent: in the state each pass leaves (pc names the pass that
\* follows it), a second run of the pass on the query, with the same source
\* columns and the same function and dictionary metadata, changes nothing.
C14_ClauseOptimizersIdempotent ==
    /\ pc = "optimizeOrderBy" =>
          optimizeGroupBy(query[1], result.source_columns_set)
              = [err |-> "", select_query |-> query[1]]
    /\ pc = "optimizeDuplicateDistinct" => optimizeDuplicateOrderBy(query, 1) = query
    /\ pc = "optimizeLimitBy" => optimizeDuplicateDistinct(query) = query

\* GROUP BY toString(x), 1 has become GROUP BY x, which a second run leaves alone
C14_Witness ==
    /\ pc = "optimizeOrderBy"
    /\ opts.query[1].group_by.present
    /\ opts.query[1].group_by.list = <<ToStringX, Literal("1")>>
    /\ query[1].group_by.list = <<Identifier("x")>>
    /\ optimizeGroupBy(query[1], result.source_columns_set)
           = [err |-> "", select_query |-> query[1]]

-----------------------------------------------------------------------------
(* Calls that exercise ARRAY JOIN.                                         *)

MaxArrayJoin == 2

\* arr, arr AS a, n, n AS r, m, z, range(3) AS r
ArrayJoinExpressions ==
    {Identifier("arr"), WithAlias(Identifier("arr"), "a"),
     Identifier("n"), WithAlias(Identifier("n"), "r"), Identifier("m"), Identifier("z"),
     WithAlias(Function("range", "range(3)", <<Literal("3")>>), "r")}

\* the columns of the table t
ArrayJoinTables ==
    {<<Column("x", TypeUInt64), Column("arr", TypeString),
       Column("n.a", TypeString), Column("n.b", TypeString), Column("m.a", TypeString)>>,
     <<Column("x", TypeUInt64), Column("n.b", TypeString), Column("n.a", TypeString)>>,
     <<Column("x", TypeUInt64), Column("n", TypeString), Column("n.a", TypeString)>>}

\* what the ArrayJoinedColumnsVisitor has found: nothing when the result of
\* ARRAY JOIN is not used
VisitedMaps ==
    {EmptyMap, [k \in {"a"} |-> "arr"],
     [k \in {"r.a", "r.b"} |-> IF k = "r.a" THEN "n.a" ELSE "n.b"],
     [k \in {"r"} |-> "range(3)"]}

\* SELECT x FROM t ARRAY JOIN ..., other names being referenced besides x
ArrayJoinCalls ==
    \E array_join \in SeqUpTo(ArrayJoinExpressions, MaxArrayJoin) \ {<<>>},
       columns \in ArrayJoinTables, visited \in VisitedMaps,
       names \in {{}, {"arr"}, {"q"}} :
        Call(<<[BaseSelect EXCEPT !.array_join = Clause(array_join)]>>,
             [BaseOpts EXCEPT
                 !.storage = [BaseStorage EXCEPT !.columns = columns, !.physical = columns],
                 !.array_join_visited = visited,
                 !.other_required_names = [n \in names |-> 1]])

InitArrayJoin == EntryCalls \/ ArrayJoinCalls

SpecArrayJoin == InitArrayJoin /\ [][Next]_vars

\* the map with the single entry k -> v
SingleEntry(k, v) == [x \in {k} |-> v]

\* the source columns of the nested table name: prefix name, a subcolumn behind it
NestedSubcolumns(source_columns, name) ==
    SelectSeq(source_columns,
              LAMBDA column : splitName(column.name)[1] = name
                                 /\ splitName(column.name)[2] # "")

\* the first ARRAY JOIN expression is an array: no identifier, or a source column
IsArray(expr, source_columns) ==
    expr.type # "Identifier" \/ expr.column_name \in NameSet(source_columns)

ResultName(expr) == IF expr.alias # "" THEN expr.alias ELSE expr.column_name

\* C18 as stated: with ARRAY JOIN and no used result column found by the
\* visitor, an array gives the single entry result_name -> source_name, and a
\* nested table gives result.subcol -> source.subcol for every source column
\* of the nested table, or EMPTY_NESTED_TABLE when it has none.
C18_EveryNestedColumn ==
    [][(pc = "getArrayJoinedColumns" /\ query[1].array_join.present
            /\ opts.array_join_visited = EmptyMap) =>
          LET expr == query[1].array_join.list[1]
              nested == NestedSubcolumns(result.source_columns, expr.column_name)
              map == result'.array_join_result_to_source
          IN  IF IsArray(expr, result.source_columns)
              THEN pc' # "failed" /\ map = SingleEntry(ResultName(expr), expr.column_name)
              ELSE IF nested = <<>>
              THEN pc' = "failed" /\ err' = "EMPTY_NESTED_TABLE"
              ELSE /\ pc' # "failed"
                   /\ DOMAIN map = {ResultName(expr) \o "." \o splitName(nested[i].name)[2] :
                                       i \in 1..Len(nested)}
                   /\ \A i \in 1..Len(nested) :
                         map[ResultName(expr) \o "." \o splitName(nested[i].name)[2]]
                             = nested[i].name]_vars

\* C18, amended: with ARRAY JOIN and no used result column found by the
\* visitor, an array gives the single entry result_name -> source_name; a
\* nested table gives the single entry result.subcol -> source.subcol for the
\* first source column of the nested table, in the order of source_columns,
\* and EMPTY_NESTED_TABLE when it has none; after a successful call on a
\* query with ARRAY JOIN array_join_result_to_source is not empty.
C18_FirstNestedColumn ==
    [][(pc = "getArrayJoinedColumns" /\ query[1].array_join.present) =>
          LET expr == query[1].array_join.list[1]
              nested == NestedSubcolumns(result.source_columns, expr.column_name)
              map == result'.array_join_result_to_source
          IN  /\ pc' # "failed" => DOMAIN map # {}
              /\ opts.array_join_visited = EmptyMap =>
                    IF IsArray(expr, result.source_columns)
                    THEN /\ pc' # "failed"
                         /\ map = SingleEntry(ResultName(expr), expr.column_name)
                    ELSE IF nested = <<>>
                    THEN pc' = "failed" /\ err' = "EMPTY_NESTED_TABLE"
                    ELSE /\ pc' # "failed"
                         /\ map = SingleEntry(ResultName(expr) \o "."
                                                  \o splitName(nested[1].name)[2],
                                              nested[1].name)]_vars

\* ARRAY JOIN n AS r on t(x, n.b, n.a), r not used: only r.b -> n.b is recorded
C18_Witness ==
    /\ pc = "setJoinStrictness"
    /\ query[1].array_join.present
    /\ query[1].array_join.list[1] = WithAlias(Identifier("n"), "r")
    /\ opts.array_join_visited = EmptyMap
    /\ Names(result.source_columns) = <<"x", "n.b", "n.a">>
    /\ result.array_join_result_to_source = SingleEntry("r.b", "n.b")

\* C19: on a query with ARRAY JOIN, every name of a source column that is a
\* value of array_join_result_to_source is in the final required set of
\* collectUsedColumns; when the call succeeds the column is in
\* required_source_columns, and the only failure of such a call is
\* UNKNOWN_IDENTIFIER.
C19_ArrayJoinSourcesRequired ==
    [][(pc = "collectUsedColumns" /\ IsSelect /\ query[1].array_join.present) =>
          \A k \in DOMAIN result.array_join_result_to_source :
              LET source == result.array_join_result_to_source[k] IN
              source \in NameSet(result.source_columns) =>
                  /\ source \in locals'.required
                  /\ pc' = "done" => source \in NameSet(result'.required_source_columns)
                  /\ pc' = "failed" => err' = "UNKNOWN_IDENTIFIER"]_vars

\* SELECT x FROM t ARRAY JOIN arr AS a with only x referenced: x and arr are read
C19_Witness ==
    /\ pc = "done"
    /\ IsSelect
    /\ query[1].array_join.present
    /\ query[1].array_join.list[1] = WithAlias(Identifier("arr"), "a")
    /\ result.array_join_result_to_source = SingleEntry("a", "arr")
    /\ requiredColumns(ColumnsContext) = {"x"}
    /\ Names(result.required_source_columns) = <<"x", "arr">>

-----------------------------------------------------------------------------
(* The joined-table columns in the required-columns analysis.              *)

\* the number of times name is a right join key; USING keys are not counted
RightKeyUses(analyzed_join, name) ==
    IF analyzed_join.has_using THEN 0
    ELSE Cardinality({i \in 1..Len(analyzed_join.key_names_right) :
                         analyzed_join.key_names_right[i] = name})

\* the number of times the query references name
NameUses(columns_context, name) ==
    IF name \in DOMAIN columns_context.required_names
    THEN columns_context.required_names[name] ELSE 0

JoinedColumnAsClaimed(column, res, new_res, columns_context, required) ==
    LET left == column.name \in NameSet(res.source_columns)
        referenced == NameUses(columns_context, column.name) > 0
        added == column \in Range(new_res.analyzed_join.columns_added_by_join)
    IN  /\ (~left /\ referenced) =>
              /\ added <=> (NameUses(columns_context, column.name)
                                > RightKeyUses(res.analyzed_join, column.name))
              /\ column.name \notin required
        /\ left =>
              /\ ~added
              /\ referenced => column.name \in required
        /\ ~referenced => ~added

\* C20: in collectUsedColumns on a query with a table join, a column of the
\* joined table whose name is no left source column and which the query
\* references is added to the joined columns of analyzed_join exactly when
\* nameInclusion > rightKeyInclusion, and its name is not in the required set
\* in either case; a joined column with the name of a left source column is
\* not added and its name, when referenced, stays required; a joined column
\* that is not referenced is not added.
C20_JoinedColumnsPromoted ==
    [][(pc = "collectUsedColumns" /\ ColumnsContext.has_table_join) =>
          /\ Range(result'.analyzed_join.columns_added_by_join)
                \subseteq Range(result.analyzed_join.columns_from_joined_table)
          /\ \A i \in 1..Len(result.analyzed_join.columns_from_joined_table) :
                JoinedColumnAsClaimed(result.analyzed_join.columns_from_joined_table[i],
                                      result, result', ColumnsContext,
                                      locals'.required)]_vars

\* j is referenced twice and is one right key of ON: it is promoted and leaves
\* the required set; the joined column a has the name of a column of t and stays
C20_Witness ==
    /\ pc = "done"
    /\ IsSelect
    /\ query[1].join.present
    /\ Names(result.analyzed_join.columns_from_joined_table) = <<"j", "a">>
    /\ result.analyzed_join.key_names_right = <<"j">>
    /\ ~result.analyzed_join.has_using
    /\ nameInclusion(ColumnsContext, "j") = 2
    /\ nameInclusion(ColumnsContext, "a") = 1
    /\ Names(result.analyzed_join.columns_added_by_join) = <<"j">>
    /\ locals.required = {"a"}

====
